---- MODULE Spec2Model ----
(***************************************************************************)
(* Model of the image-to-PDF tool's adaptive enhancement core:             *)
(*   - ImageEnhancerMobile (capability tier, optimizationSettings budget,  *)
(*     battery / network handlers, processBatchMobile),                    *)
(*   - MemoryManager (device memory, thresholds, canProcessBatch),         *)
(*   - PerformanceMonitor (frame-rate loop, error counts,                  *)
(*     shouldPauseProcessing, optimizeForDevice),                          *)
(*   - ImageEnhancerCore.enhanceImagesBatch, ImageEnhancer.enhanceImages   *)
(*     and PDFGenerator.applyImageEnhancement,                             *)
(*   - FileHandler.handleFileSelection and OrderDetector (cover files,     *)
(*     number patterns, the order modal),                                  *)
(*   - the pixel passes of ImageEnhancerCore and ImageEnhancerMobile       *)
(*     (full-frame, tiled, contrast, preview and CPU sharpening).          *)
(*                                                                         *)
(* Units.  navigator.deviceMemory is a number of GB in {0.25,0.5,1,2,...}; *)
(* the model counts it in quarter-GB (1 = 0.25 GB, 8 = 2 GB) and uses 0    *)
(* for "not reported".  Ratios (memoryThreshold, usageRatio,               *)
(* qualityReduction, battery level) are in hundredths.  Delays are in ms.  *)
(***************************************************************************)
EXTENDS Integers, Sequences, FiniteSets, TLC

VARIABLES
    \* ---- browser environment
    nav,                \* navigator / window signals fixed for the session
    innerSmall,         \* window.innerWidth <= 768
    effectiveType,      \* navigator.connection.effectiveType ("absent": no connection object)
    battLevel,          \* battery.level, hundredths
    battCharging,       \* battery.charging
    \* ---- ImageEnhancerMobile
    isMobile,           \* this.isMobile, set by the constructor
    deviceCapability,   \* this.deviceCapability
    optimizationSettings, \* this.optimizationSettings
    batteryReady,       \* the getBattery() promise has resolved (listeners installed)
    warnings,           \* user-visible warnings issued through fileHandler.showWarning
    chargedSinceLevel,  \* a charging=true handler ran after the last level handler
    \* ---- MemoryManager
    mm,                 \* maxImageSize, memoryThreshold computed by the constructor
    \* ---- PerformanceMonitor
    isMonitoring,
    fps,                \* performanceData.fps (-1: never written)
    rafPending,         \* a requestAnimationFrame(measureFPS) callback is scheduled
    errorCount,         \* sum of errorCounts
    \* ---- ImageEnhancer / batch in flight
    isProcessing,
    enhIsMobile,        \* ImageEnhancer.isMobile
    pc,                 \* position of the applyImageEnhancement call
    files,              \* the list handed to the call
    level,              \* the requested enhancement level
    batchSize,          \* enhanceImagesBatch's batchSize
    chunkStart,         \* the loop index i (1-based)
    itemState,          \* per input item: "pending", "running", "ok", "failed"
    enhancedFiles,      \* enhancedFiles / results accumulated so far
    delivered,          \* what applyImageEnhancement returned to generatePDF
    rejectReason,       \* reason carried by the Error enhanceImages rejected with
    progress,           \* indices the progress callback was called with
    sleeps,             \* the setTimeout delays awaited between chunks / items
    lastCheck,          \* the heap ratio read by the latest shouldPauseProcessing call,
                        \* its verdict, and how many items had been pushed by then
    \* ---- FileHandler / OrderDetector
    fileHandlerFiles,   \* window.fileHandler.files, the working list
    fileData,           \* keys of window.fileHandler.fileData: ids of the files read
    runs,               \* handleFileSelection calls awaiting processFiles, in call
                        \* order: the valid files and the index of the one being read
    analysis,           \* the analysis the latest detectOrder call computed
    orderStatus,        \* class of the #orderStatus indicator
    orderModal,         \* "shown" while #orderModal is displayed
    \* ---- canvas of an enhancement in progress
    ctx,                \* the 2d context's canvas: width, height, data as getImageData reads it
    original,           \* the canvas as drawImage left it
    strengthLevel,      \* the enhancement level of the call
    passes,             \* the filter passes applied to ctx, in order
    buffers,            \* the pixel buffers those passes handed to putImageData
    \* ---- closure of monitorFrameRate
    frameCount,         \* frames counted since lastTime
    \* ---- direct calls of a module's method
    previews,           \* showQualityCompare calls awaiting createPreviewEnhancement
    returned            \* the call made: method, arguments and the value it returned

envVars    == <<nav, innerSmall, effectiveType, battLevel, battCharging>>
mobileVars == <<isMobile, deviceCapability, optimizationSettings, batteryReady,
                warnings, chargedSinceLevel>>
monVars    == <<isMonitoring, fps, rafPending, errorCount>>
batchVars  == <<isProcessing, enhIsMobile, pc, files, level, batchSize, chunkStart,
                itemState, enhancedFiles, delivered, rejectReason, progress, sleeps,
                lastCheck>>
orderVars  == <<fileHandlerFiles, fileData, runs, analysis, orderStatus, orderModal>>
filterVars == <<ctx, original, strengthLevel, passes, buffers>>
callVars   == <<returned, previews>>
auxVars    == <<orderVars, filterVars, frameCount, callVars>>
vars       == <<envVars, mobileVars, mm, monVars, batchVars, auxVars>>

\* ------------------------------------------------------------------ bounds
MaxFiles  == 7      \* longest input list
MaxDelay  == 1300   \* discharging events stop raising processingDelay here
MaxErrors == 6      \* global error events stop being counted here

Max(a, b) == IF a >= b THEN a ELSE b
Min(a, b) == IF a <= b THEN a ELSE b

\* ------------------------------------------------------ environment inputs
Undefined == 0 - 1

\* Device profiles the sessions are drawn from (deviceMemory in quarter-GB,
\* 0 = not reported; cores 0 = not reported; small: the window is at most
\* 768 px wide when the page loads; conn: the connection when the page loads).
Devices ==
    { [ua |-> FALSE, touch |-> FALSE, deviceMemory |-> 32, cores |-> 8,
       heapApi |-> TRUE,  hasBattery |-> FALSE, small |-> FALSE, conn |-> "4g"],
      [ua |-> FALSE, touch |-> FALSE, deviceMemory |-> 1,  cores |-> 4,
       heapApi |-> TRUE,  hasBattery |-> FALSE, small |-> FALSE, conn |-> "4g"],
      [ua |-> FALSE, touch |-> FALSE, deviceMemory |-> 0,  cores |-> 0,
       heapApi |-> FALSE, hasBattery |-> FALSE, small |-> FALSE, conn |-> "absent"],
      [ua |-> TRUE,  touch |-> TRUE,  deviceMemory |-> 8,  cores |-> 4,
       heapApi |-> TRUE,  hasBattery |-> TRUE,  small |-> TRUE,  conn |-> "slow-2g"],
      [ua |-> TRUE,  touch |-> TRUE,  deviceMemory |-> 32, cores |-> 8,
       heapApi |-> TRUE,  hasBattery |-> TRUE,  small |-> TRUE,  conn |-> "4g"],
      [ua |-> FALSE, touch |-> TRUE,  deviceMemory |-> 16, cores |-> 6,
       heapApi |-> TRUE,  hasBattery |-> TRUE,  small |-> FALSE, conn |-> "3g"] }

\* Battery snapshots (level, charging) a session starts with.
BatterySnapshots == { <<10, FALSE>>, <<10, TRUE>>, <<90, TRUE>> }

EffectiveTypes == {"slow-2g", "2g", "3g", "4g"}
BatteryLevels  == {10, 30, 90}
UsageRatios    == {40, 85, 95}
Levels         == 0 .. 3

\* ------------------------------------------------ ImageEnhancerMobile
detectMobileDevice(n, small) == n.ua \/ small \/ n.touch

assessDeviceCapabilityNetworkFirst(n, mobile, conn) ==
    LET memory == IF n.deviceMemory # 0 THEN n.deviceMemory
                  ELSE IF mobile THEN 8 ELSE 16
        cores  == IF n.cores # 0 THEN n.cores ELSE IF mobile THEN 4 ELSE 8
        net    == IF conn \in {"slow-2g", "2g"} THEN "low" ELSE "medium"
        capability == IF mobile
                      THEN IF memory <= 8 /\ cores <= 4 THEN "low"
                           ELSE IF memory <= 16 /\ cores <= 6 THEN net
                           ELSE "high"
                      ELSE IF memory <= 16 THEN net ELSE "high"
    IN [level |-> capability, memory |-> memory, cores |-> cores,
        isMobile |-> mobile,
        connection |-> IF conn = "absent" THEN "unknown" ELSE conn]

assessDeviceCapability(n, mobile, conn) ==
    LET memory == IF n.deviceMemory # 0 THEN n.deviceMemory
                  ELSE IF mobile THEN 8 ELSE 16
        cores  == IF n.cores # 0 THEN n.cores ELSE IF mobile THEN 4 ELSE 8
        hw     == IF mobile
                  THEN IF memory <= 8 /\ cores <= 4 THEN "low"
                       ELSE IF memory <= 16 /\ cores <= 6 THEN "medium"
                       ELSE "high"
                  ELSE IF memory <= 16 THEN "medium" ELSE "high"
        capability == IF conn \in {"slow-2g", "2g"} THEN "low" ELSE hw
    IN [level |-> capability, memory |-> memory, cores |-> cores,
        isMobile |-> mobile,
        connection |-> IF conn = "absent" THEN "unknown" ELSE conn]

getOptimizationSettingsDefaults(cap) ==
    [maxImageSize |-> 2048 * 1536, maxBatchSize |-> 1,
     processingDelay |-> 200, qualityReduction |-> 10]

\* getOptimizationSettings: the switch on this.deviceCapability.level
getOptimizationSettings(cap) ==
    CASE cap.level = "low" ->
           [maxImageSize |-> 1024 * 768, maxBatchSize |-> 1,
            processingDelay |-> 500, qualityReduction |-> 20]
      [] cap.level = "medium" ->
           [maxImageSize |-> 1920 * 1080, maxBatchSize |-> 1,
            processingDelay |-> 200, qualityReduction |-> 10]
      [] cap.level = "high" ->
           [maxImageSize |-> 2560 * 1920, maxBatchSize |-> 2,
            processingDelay |-> 100, qualityReduction |-> 5]

adjustForNetworkChangeQualityOnly(s, conn) ==
    IF conn = "absent" THEN s
    ELSE IF conn \in {"slow-2g", "2g"} THEN [s EXCEPT !.qualityReduction = 30]
    ELSE IF conn = "3g"
         THEN [s EXCEPT !.qualityReduction = 20, !.maxImageSize = 1920 * 1080]
    ELSE [s EXCEPT !.qualityReduction = 10, !.maxImageSize = 2560 * 1920]

adjustForNetworkChange(s, conn) ==
    IF conn = "absent" THEN s
    ELSE IF conn \in {"slow-2g", "2g"}
         THEN [s EXCEPT !.qualityReduction = 30, !.maxImageSize = 1024 * 768]
    ELSE IF conn = "3g"
         THEN [s EXCEPT !.qualityReduction = 20, !.maxImageSize = 1920 * 1080]
    ELSE [s EXCEPT !.qualityReduction = 10, !.maxImageSize = 2560 * 1920]

networkWarnings(w, conn) ==
    IF conn \in {"slow-2g", "2g"} THEN w \cup {"slow_network"} ELSE w

adjustForBatteryLevelLax(s, cap, lvl) ==
    IF lvl < 20 THEN [s EXCEPT !.processingDelay = 500]
    ELSE IF lvl < 50 THEN [s EXCEPT !.processingDelay = 200, !.maxBatchSize = 1]
    ELSE [s EXCEPT !.processingDelay = 200,
                   !.maxBatchSize = IF cap.level = "high" THEN 2 ELSE 1]

adjustForBatteryLevel(s, cap, lvl) ==
    IF lvl < 20 THEN [s EXCEPT !.processingDelay = 1000, !.maxBatchSize = 1]
    ELSE IF lvl < 50 THEN [s EXCEPT !.processingDelay = 500, !.maxBatchSize = 1]
    ELSE [s EXCEPT !.processingDelay = 200,
                   !.maxBatchSize = IF cap.level = "high" THEN 2 ELSE 1]

batteryWarnings(w, lvl) == IF lvl < 20 THEN w \cup {"power_save"} ELSE w

adjustForChargingStateNoFloor(s, isCharging) ==
    IF isCharging
    THEN [s EXCEPT !.processingDelay = s.processingDelay - 100]
    ELSE [s EXCEPT !.processingDelay = s.processingDelay + 100]

adjustForChargingState(s, isCharging) ==
    IF isCharging
    THEN [s EXCEPT !.processingDelay = Max(100, s.processingDelay - 100)]
    ELSE [s EXCEPT !.processingDelay = s.processingDelay + 100]

\* ------------------------------------------------------- MemoryManager
isMobileDevice(n, small) == n.ua \/ small

getDeviceMemory(n, small) ==
    IF n.deviceMemory # 0 THEN n.deviceMemory
    ELSE IF n.cores # 0
         THEN IF n.cores <= 2 THEN 8
              ELSE IF n.cores <= 4 THEN 16
              ELSE IF n.cores <= 8 THEN 32 ELSE 64
    ELSE IF isMobileDevice(n, small) THEN 8 ELSE 16

getMaxImageSize(n, small) ==
    LET memory == getDeviceMemory(n, small) IN
    IF isMobileDevice(n, small)
    THEN IF memory <= 8 THEN 1024 * 1024
         ELSE IF memory <= 16 THEN 2048 * 1536 ELSE 2560 * 1920
    ELSE IF memory <= 16 THEN 2048 * 1536
         ELSE IF memory <= 32 THEN 3840 * 2160 ELSE 7680 * 4320

getMemoryThreshold(n, small) ==
    LET memory == getDeviceMemory(n, small) IN
    IF isMobileDevice(n, small)
    THEN IF memory <= 8 THEN 50 ELSE IF memory <= 16 THEN 60 ELSE 70
    ELSE IF memory <= 16 THEN 60 ELSE IF memory <= 32 THEN 70 ELSE 80

\* Largest n in lo..hi with n*n <= x (lo*lo <= x is given).
RECURSIVE isqrtIn(_, _, _)
isqrtIn(lo, hi, x) ==
    IF lo >= hi THEN lo
    ELSE LET mid == (lo + hi + 1) \div 2
         IN IF mid * mid <= x THEN isqrtIn(mid, hi, x) ELSE isqrtIn(lo, mid - 1, x)

\* floor(a * sqrt(cap / (a * b))) = floor(sqrt(a * cap / b)); the quotient is
\* taken in two parts so that no intermediate product leaves 32 bits.
scaledSide(a, b, cap) ==
    isqrtIn(0, a, a * (cap \div b) + (a * (cap % b)) \div b)

getOptimalImageSizeCeil(originalWidth, originalHeight, maxImageSize) ==
    IF originalWidth * originalHeight <= maxImageSize
    THEN [width |-> originalWidth, height |-> originalHeight, needsResize |-> FALSE]
    ELSE [width  |-> scaledSide(originalWidth, originalHeight, maxImageSize) + 1,
          height |-> scaledSide(originalHeight, originalWidth, maxImageSize) + 1,
          needsResize |-> TRUE]

\* MemoryManager.getOptimalImageSize with this.maxImageSize as a parameter;
\* ImageEnhancerMobile.calculateOptimalSize is the same code with maxSize.
getOptimalImageSize(originalWidth, originalHeight, maxImageSize) ==
    IF originalWidth * originalHeight <= maxImageSize
    THEN [width |-> originalWidth, height |-> originalHeight, needsResize |-> FALSE]
    ELSE [width  |-> scaledSide(originalWidth, originalHeight, maxImageSize),
          height |-> scaledSide(originalHeight, originalWidth, maxImageSize),
          needsResize |-> TRUE]

\* Total pixel count canProcessBatch estimates for the list (each image at its
\* optimal size); estimateMemoryUsage is 8 bytes per pixel.
RECURSIVE batchPixels(_, _, _)
batchPixels(fs, k, maxImageSize) ==
    IF k = 0 THEN 0
    ELSE LET o == getOptimalImageSize(fs[k].dimensions.width,
                                      fs[k].dimensions.height, maxImageSize)
         IN batchPixels(fs, k - 1, maxImageSize) + o.width * o.height

canProcessBatchAlways(fs, n, small, m) == TRUE

\* totalMemoryNeeded <= deviceMemoryBytes * memoryThreshold, i.e.
\* 8 * pixels <= (deviceMemory/4) * 2^30 * (threshold/100), which is
\* 25 * pixels <= deviceMemory * threshold * 2^23 in the model's units.
canProcessBatch(fs, n, small, m) ==
    (25 * batchPixels(fs, Len(fs), m.maxImageSize) + 8388607) \div 8388608
        <= getDeviceMemory(n, small) * m.memoryThreshold

\* checkMemoryUsage with the heap ratio read at the call.
checkMemoryUsage(n, m, usage) ==
    IF ~n.heapApi THEN FALSE ELSE ~(usage > m.memoryThreshold)

\* --------------------------------------------------- PerformanceMonitor
\* The reason of { should: true, reason }, or "none" for { should: false }.
\* usage is Undefined when performance.memory does not exist.
shouldPauseProcessing(usage, fpsv, errs) ==
    IF usage > 90 THEN "memory_critical"
    ELSE IF fpsv # Undefined /\ fpsv < 10 THEN "fps_critical"
    ELSE IF errs > 5 THEN "errors_critical"
    ELSE "none"

\* optimizeForDevice().batchSize
optimizeForDevice(n, small) ==
    LET memory == getDeviceMemory(n, small) IN
    IF isMobileDevice(n, small)
    THEN IF memory <= 8 THEN 1 ELSE IF memory <= 16 THEN 2 ELSE 3
    ELSE IF memory <= 16 THEN 3 ELSE 5

\* ------------------------------------------------------------ ImageItems
\* createFileInfo: the record ingestion builds for the i-th selected file.
createFileInfo(i, d) ==
    [id |-> i, name |-> i, size |-> d.bytes,
     dimensions |-> [width |-> d.width, height |-> d.height],
     imageData |-> [src |-> i, level |-> 0, via |-> "file",
                    width |-> d.width, height |-> d.height],
     enhanced |-> FALSE, enhancementLevel |-> Undefined]

enhanceImageSafelyNoShortcut(imageData, lv, m) ==
    LET o == getOptimalImageSize(imageData.width, imageData.height, m.maxImageSize)
    IN [src |-> imageData.src, level |-> lv, via |-> "core",
        width |-> o.width, height |-> o.height]

\* enhanceImageSafely: level 0 returns its argument; for level > 0 on a
\* decodable image processImageSafely resizes to the optimal size and
\* performEnhancement filters and re-encodes.
enhanceImageSafely(imageData, lv, m) ==
    IF lv = 0 THEN imageData
    ELSE LET o == getOptimalImageSize(imageData.width, imageData.height, m.maxImageSize)
         IN [src |-> imageData.src, level |-> lv, via |-> "core",
             width |-> o.width, height |-> o.height]

\* enhanceImageMobile: optimizeImageForMobile then applyMobileFriendlyEnhancement.
enhanceImageMobile(imageData, lv, s) ==
    IF lv = 0 THEN imageData
    ELSE LET o == getOptimalImageSize(imageData.width, imageData.height, s.maxImageSize)
         IN [src |-> imageData.src, level |-> lv, via |-> "mobile",
             width |-> o.width, height |-> o.height]

\* createPreviewEnhancement: a copy scaled to at most 300 px a side.
createPreviewEnhancement(imageData, lv) ==
    IF lv = 0 THEN imageData
    ELSE LET w == imageData.width
             h == imageData.height
         IN [src |-> imageData.src, level |-> lv, via |-> "preview",
             width  |-> IF w <= 300 /\ h <= 300 THEN w
                        ELSE IF w >= h THEN 300 ELSE (w * 300) \div h,
             height |-> IF w <= 300 /\ h <= 300 THEN h
                        ELSE IF h >= w THEN 300 ELSE (h * 300) \div w]

\* The image dimensions generatePDF hands to calculateImagePlacement.
placementDimensions(file) == file.dimensions

\* ------------------------------------------------------------------ Init
NoCheck == [reason |-> "none", at |-> 0]

\* analyzeFileNames' initial analysis object.
NoAnalysis == [hasValidOrder |-> FALSE, hasCover |-> FALSE, coverFiles |-> << >>,
               numberedFiles |-> << >>, orderingMethod |-> "none"]

\* The state the constructors of the modules leave, apart from the frame
\* callback monitorFrameRate has requested.
Modules ==
    /\ innerSmall = nav.small
    /\ effectiveType = nav.conn
    /\ \E b \in (IF nav.hasBattery THEN BatterySnapshots ELSE { <<90, TRUE>> }) :
          battLevel = b[1] /\ battCharging = b[2]
    /\ isMobile = detectMobileDevice(nav, innerSmall)
    /\ deviceCapability = assessDeviceCapability(nav, isMobile, effectiveType)
    /\ optimizationSettings =
          IF isMobile
          THEN adjustForNetworkChange(getOptimizationSettings(deviceCapability),
                                      effectiveType)
          ELSE getOptimizationSettings(deviceCapability)
    /\ warnings = IF isMobile THEN networkWarnings({}, effectiveType) ELSE {}
    /\ batteryReady = FALSE
    /\ chargedSinceLevel = FALSE
    /\ mm = [maxImageSize    |-> getMaxImageSize(nav, innerSmall),
             memoryThreshold |-> getMemoryThreshold(nav, innerSmall)]
    /\ isMonitoring = FALSE
    /\ errorCount = 0
    /\ isProcessing = FALSE
    /\ enhIsMobile = isMobile
    /\ pc = "idle"
    /\ files = << >>
    /\ level = 0
    /\ batchSize = 0
    /\ chunkStart = 0
    /\ itemState = << >>
    /\ enhancedFiles = << >>
    /\ delivered = << >>
    /\ rejectReason = "none"
    /\ progress = << >>
    /\ sleeps = << >>
    /\ lastCheck = NoCheck
    /\ fileHandlerFiles = << >>
    /\ fileData = {}
    /\ runs = << >>
    /\ analysis = NoAnalysis
    /\ orderStatus = "none"
    /\ orderModal = "hidden"

\* The state once every module's constructor has run and the first animation
\* frame has been delivered to measureFPS (which is not rescheduled while
\* isMonitoring is false): fps is unwritten, or 1 when that frame came a
\* second or more after the page's scripts ran.
Constructed ==
    /\ Modules
    /\ fps \in {Undefined, 1}
    /\ frameCount = IF fps = Undefined THEN 1 ELSE 0
    /\ rafPending = FALSE

\* No enhancement canvas exists.
NoCanvas == [width |-> 0, height |-> 0, data |-> << >>]

Idle ==
    /\ ctx = NoCanvas
    /\ original = NoCanvas
    /\ strengthLevel = 0
    /\ passes = << >>
    /\ buffers = << >>
    /\ returned = << >>
    /\ previews = 0

Init == nav \in Devices /\ Constructed /\ Idle

\* Every combination of the signals assessDeviceCapability reads.
Signals ==
    [ua : BOOLEAN, touch : BOOLEAN, deviceMemory : {0, 1, 2, 4, 8, 16, 32},
     cores : {0, 2, 4, 6, 8}, heapApi : {TRUE}, hasBattery : {FALSE},
     small : BOOLEAN, conn : {"absent"} \cup EffectiveTypes]

InitAssess == nav \in Signals /\ Constructed /\ Idle

\* ------------------------------------------- budget handlers (mobile only)
\* navigator.getBattery() resolves: the listeners are installed and the two
\* initial adjustments run, level first.
BatteryReady ==
    /\ isMobile /\ nav.hasBattery /\ ~batteryReady
    /\ batteryReady' = TRUE
    /\ optimizationSettings' =
          adjustForChargingState(
              adjustForBatteryLevel(optimizationSettings, deviceCapability, battLevel),
              battCharging)
    /\ warnings' = batteryWarnings(warnings, battLevel)
    /\ chargedSinceLevel' = battCharging
    /\ UNCHANGED <<envVars, isMobile, deviceCapability, mm, auxVars, monVars, batchVars>>

\* battery 'levelchange'
BatteryLevelChange ==
    /\ batteryReady
    /\ \E lvl \in BatteryLevels \ {battLevel} :
          /\ battLevel' = lvl
          /\ optimizationSettings' =
                adjustForBatteryLevel(optimizationSettings, deviceCapability, lvl)
          /\ warnings' = batteryWarnings(warnings, lvl)
    /\ chargedSinceLevel' = FALSE
    /\ UNCHANGED <<nav, innerSmall, effectiveType, battCharging, isMobile,
                   deviceCapability, batteryReady, mm, auxVars, monVars, batchVars>>

\* battery 'chargingchange'; the handler passes battery.charging as it is
\* when the handler runs.
BatteryChargingChange ==
    /\ batteryReady
    /\ \E c \in BOOLEAN :
          /\ c \/ optimizationSettings.processingDelay < MaxDelay
          /\ battCharging' = c
          /\ optimizationSettings' = adjustForChargingState(optimizationSettings, c)
          /\ chargedSinceLevel' = (chargedSinceLevel \/ c)
    /\ UNCHANGED <<nav, innerSmall, effectiveType, battLevel, isMobile,
                   deviceCapability, batteryReady, warnings, mm, auxVars, monVars, batchVars>>

\* connection 'change': the network class changes; the listener that runs
\* adjustForNetworkChange exists only where the constructor found isMobile.
NetworkChange ==
    /\ effectiveType # "absent"
    /\ \E t \in EffectiveTypes \ {effectiveType} :
          /\ effectiveType' = t
          /\ IF isMobile
             THEN /\ optimizationSettings' =
                        adjustForNetworkChange(optimizationSettings, t)
                  /\ warnings' = networkWarnings(warnings, t)
             ELSE UNCHANGED <<optimizationSettings, warnings>>
    /\ UNCHANGED <<nav, innerSmall, battLevel, battCharging, isMobile,
                   deviceCapability, batteryReady, chargedSinceLevel, mm, auxVars, monVars,
                   batchVars>>

\* window 'resize' / 'orientationchange': ImageEnhancer.handleDeviceChange
Resize ==
    /\ innerSmall' = ~innerSmall
    /\ deviceCapability' = assessDeviceCapability(nav, isMobile, effectiveType)
    /\ UNCHANGED <<nav, effectiveType, battLevel, battCharging, isMobile,
                   optimizationSettings, batteryReady, warnings, chargedSinceLevel,
                   mm, auxVars, monVars, batchVars>>

\* window 'error' / 'unhandledrejection': PerformanceMonitor.recordError
GlobalError ==
    /\ errorCount < MaxErrors
    /\ errorCount' = errorCount + 1
    /\ UNCHANGED <<envVars, mobileVars, mm, auxVars, isMonitoring, fps, rafPending, batchVars>>

\* ------------------------------------------------- batch enhancement
\* The files the user works with: the input of a call is the first n of them.
CatalogueDims(i) ==
    IF i = 1 THEN [width |-> 4000, height |-> 3000, bytes |-> 3500000]
    ELSE IF i = 2 THEN [width |-> 1200, height |-> 1600, bytes |-> 450000]
    ELSE [width |-> 2048, height |-> 1536, bytes |-> 900000]

OrderedFiles(n) == [i \in 1 .. n |-> createFileInfo(i, CatalogueDims(i))]

\* The heap ratios a read of performance.memory can give.
UsageReads == IF nav.heapApi THEN UsageRatios ELSE {Undefined}

chunkOf(i, bs, n) == i .. Min(i + bs - 1, n)

\* ImageEnhancer.validateProcessingCapability: "ok" for { allowed: true },
\* otherwise which refusal.
validateProcessingCapability(fs, usage) ==
    IF ~canProcessBatch(fs, nav, innerSmall, mm) THEN "memory_exceeded"
    ELSE IF shouldPauseProcessing(usage, fps, errorCount) # "none"
         THEN "device_critical"
    ELSE IF enhIsMobile /\ deviceCapability.level = "low" /\ Len(fs) > 5
         THEN "low_tier_limit"
    ELSE "ok"

\* ImageEnhancerMobile.shouldPauseForDevice (the value of the battery
\* promise's callback is dropped by the code and plays no part).
shouldPauseForDevice(usage) == usage > 80 \/ effectiveType = "slow-2g"

batchResultMarksFailed(file, st, lv) ==
    [file EXCEPT !.enhanced = TRUE, !.enhancementLevel = lv,
                 !.imageData = IF st = "ok"
                               THEN enhanceImageSafely(file.imageData, lv, mm)
                               ELSE file.imageData]

batchResultResized(file, st, lv) ==
    IF st = "ok"
    THEN LET e == enhanceImageSafely(file.imageData, lv, mm)
         IN [file EXCEPT !.imageData = e, !.enhanced = TRUE,
                         !.enhancementLevel = lv,
                         !.dimensions = [width |-> e.width, height |-> e.height]]
    ELSE file

\* What the callback of batch.map resolves with for one item.
batchResult(file, st, lv) ==
    IF st = "ok"
    THEN [file EXCEPT !.imageData = enhanceImageSafely(file.imageData, lv, mm),
                      !.enhanced = TRUE, !.enhancementLevel = lv]
    ELSE file

\* What processBatchMobile pushes for one item.
mobileResult(file, st, lv) ==
    IF st = "ok"
    THEN [file EXCEPT !.imageData = enhanceImageMobile(file.imageData, lv,
                                                       optimizationSettings),
                      !.enhanced = TRUE, !.enhancementLevel = lv]
    ELSE file

chunkSettledAny(st, i, bs, n) == \E k \in chunkOf(i, bs, n) : st[k] # "running"

\* Promise.all(batchPromises) resolves: no promise of the chunk is pending.
chunkSettled(st, i, bs, n) == \A k \in chunkOf(i, bs, n) : st[k] # "running"

interChunkDelayBudget(s) == s.processingDelay

\* The delay enhanceImagesBatch awaits between two chunks.
interChunkDelay(s) == 100

applyImageEnhancementCatchPartial(fs, partial) ==
    [k \in 1 .. Len(fs) |-> IF k <= Len(partial) THEN partial[k] ELSE fs[k]]

\* PDFGenerator.applyImageEnhancement's catch branch: what it returns when
\* enhanceImages rejected.
applyImageEnhancementCatch(fs, partial) == fs

\* The synchronous start of a chunk: every item's callback runs up to its
\* first await within one task; usage is the heap ratio checkMemoryUsage
\* reads in that task.
startedChunk(st, i, bs, n, usage) ==
    [k \in 1 .. n |->
        IF k \in chunkOf(i, bs, n)
        THEN IF checkMemoryUsage(nav, mm, usage) THEN "running" ELSE "failed"
        ELSE st[k]]

indicesOfChunkStart(i, j) == [k \in 1 .. (j - i + 1) |-> i]

\* The globalIndex values (1-based) the callbacks of one chunk report.
RECURSIVE indices(_, _)
indices(i, j) == IF i > j THEN << >> ELSE <<i>> \o indices(i + 1, j)

\* enhanceImages' catch / finally and normal return: monitoring stopped,
\* isProcessing cleared.
Finish(result, reason) ==
    /\ pc' = "done"
    /\ delivered' = result
    /\ rejectReason' = reason
    /\ isMonitoring' = FALSE
    /\ isProcessing' = FALSE

\* PDFGenerator.applyImageEnhancement(files, settings) up to its first await:
\* level 0 returns at once; otherwise enhanceImages sets isProcessing, starts
\* monitoring, validates, and enters processBatchMobile or enhanceImagesBatch.
\* The click that starts it comes after the page's first animation frame.
ApplyImageEnhancement ==
    /\ pc = "idle"
    /\ ~rafPending
    /\ \E n \in 1 .. MaxFiles, lv \in Levels :
       LET fs == OrderedFiles(n) IN
       /\ files' = fs
       /\ level' = lv
       /\ enhancedFiles' = << >>
       /\ sleeps' = << >>
       /\ IF lv = 0
          THEN /\ pc' = "done"
               /\ delivered' = fs
               /\ rejectReason' = "none"
               /\ itemState' = [k \in 1 .. n |-> "pending"]
               /\ progress' = << >>
               /\ batchSize' = 0
               /\ chunkStart' = 0
               /\ lastCheck' = NoCheck
               /\ UNCHANGED <<isMonitoring, isProcessing>>
          ELSE \E usage \in UsageReads :
               LET verdict == validateProcessingCapability(fs, usage) IN
               /\ lastCheck' = [reason |-> shouldPauseProcessing(usage, fps, errorCount),
                                at |-> 0]
               /\ IF verdict # "ok"
                  THEN /\ Finish(applyImageEnhancementCatch(fs, << >>), verdict)
                       /\ itemState' = [k \in 1 .. n |-> "pending"]
                       /\ progress' = << >>
                       /\ batchSize' = 0
                       /\ chunkStart' = 0
                  ELSE /\ isMonitoring' = TRUE
                       /\ isProcessing' = TRUE
                       /\ delivered' = << >>
                       /\ rejectReason' = "none"
                       /\ IF enhIsMobile
                          THEN /\ batchSize' = 1
                               /\ \E u2 \in UsageReads :
                                    /\ chunkStart' = 1
                                    /\ progress' = <<1>>
                                    /\ IF shouldPauseForDevice(u2)
                                       THEN /\ pc' = "mWait"
                                            /\ itemState' = [k \in 1 .. n |-> "pending"]
                                       ELSE /\ pc' = "mItem"
                                            /\ itemState' = [k \in 1 .. n |->
                                                  IF k = 1 THEN "running" ELSE "pending"]
                          ELSE LET bs == optimizeForDevice(nav, innerSmall) IN
                               /\ batchSize' = bs
                               /\ chunkStart' = 1
                               /\ pc' = "chunk"
                               /\ progress' = indices(1, Min(bs, n))
                               /\ \E u2 \in UsageReads :
                                    itemState' = startedChunk([k \in 1 .. n |-> "pending"],
                                                              1, bs, n, u2)
    /\ UNCHANGED <<envVars, mobileVars, mm, auxVars, fps, rafPending, errorCount, enhIsMobile>>

\* One in-flight enhanceImageSafely of the current chunk settles: it resolves,
\* or it rejects (image load or filter error) and the callback's catch runs.
ItemSettle ==
    /\ pc = "chunk"
    /\ \E k \in chunkOf(chunkStart, batchSize, Len(files)), st \in {"ok", "failed"} :
          /\ itemState[k] = "running"
          /\ itemState' = [itemState EXCEPT ![k] = st]
    /\ UNCHANGED <<envVars, mobileVars, mm, auxVars, monVars, isProcessing, enhIsMobile, pc,
                   files, level, batchSize, chunkStart, enhancedFiles, delivered,
                   rejectReason, progress, sleeps, lastCheck>>

\* Promise.all resolves: the chunk's results are pushed, shouldPauseProcessing
\* is consulted, and the loop sleeps, returns or throws.
ChunkDone ==
    /\ pc = "chunk"
    /\ chunkSettled(itemState, chunkStart, batchSize, Len(files))
    /\ LET n    == Len(files)
           last == Min(chunkStart + batchSize - 1, n)
           out  == enhancedFiles \o
                   [j \in 1 .. (last - chunkStart + 1) |->
                       batchResult(files[chunkStart + j - 1],
                                   itemState[chunkStart + j - 1], level)]
       IN
       /\ enhancedFiles' = out
       /\ \E usage \in UsageReads :
          LET reason == shouldPauseProcessing(usage, fps, errorCount) IN
          /\ lastCheck' = [reason |-> reason, at |-> last]
          /\ IF reason # "none"
             THEN /\ Finish(applyImageEnhancementCatch(files, out), "paused")
                  /\ UNCHANGED sleeps
             ELSE IF chunkStart + batchSize <= n
             THEN /\ pc' = "sleep"
                  /\ sleeps' = Append(sleeps, interChunkDelay(optimizationSettings))
                  /\ UNCHANGED <<delivered, rejectReason, isMonitoring, isProcessing>>
             ELSE /\ Finish(out, "none")
                  /\ UNCHANGED sleeps
    /\ UNCHANGED <<envVars, mobileVars, mm, auxVars, fps, rafPending, errorCount, enhIsMobile,
                   files, level, batchSize, chunkStart, itemState, progress>>

\* The inter-chunk timer fires: the next chunk starts.
SleepDone ==
    /\ pc = "sleep"
    /\ LET n == Len(files)
           i == chunkStart + batchSize
       IN /\ chunkStart' = i
          /\ pc' = "chunk"
          /\ progress' = progress \o indices(i, Min(i + batchSize - 1, n))
          /\ \E usage \in UsageReads :
                itemState' = startedChunk(itemState, i, batchSize, n, usage)
    /\ UNCHANGED <<envVars, mobileVars, mm, auxVars, monVars, isProcessing, enhIsMobile,
                   files, level, batchSize, enhancedFiles, delivered, rejectReason,
                   sleeps, lastCheck>>

\* waitForOptimalConditions' 2000 ms timer fires: enhanceImageMobile starts.
MobileWaitDone ==
    /\ pc = "mWait"
    /\ pc' = "mItem"
    /\ itemState' = [itemState EXCEPT ![chunkStart] = "running"]
    /\ UNCHANGED <<envVars, mobileVars, mm, auxVars, monVars, isProcessing, enhIsMobile,
                   files, level, batchSize, chunkStart, enhancedFiles, delivered,
                   rejectReason, progress, sleeps, lastCheck>>

\* enhanceImageMobile settles: on success the result is pushed and the loop
\* sleeps (unless it was the last item); on failure the catch pushes the
\* original and the loop goes on to the next item at once.
MobileItemSettle ==
    /\ pc = "mItem"
    /\ \E st \in {"ok", "failed"} :
       LET n   == Len(files)
           i   == chunkStart
           out == Append(enhancedFiles, mobileResult(files[i], st, level))
       IN
       /\ enhancedFiles' = out
       /\ IF i = n
          THEN /\ Finish(out, "none")
               /\ itemState' = [itemState EXCEPT ![i] = st]
               /\ UNCHANGED <<chunkStart, progress, sleeps>>
          ELSE IF st = "ok"
          THEN /\ pc' = "mSleep"
               /\ itemState' = [itemState EXCEPT ![i] = st]
               /\ sleeps' = Append(sleeps, optimizationSettings.processingDelay)
               /\ UNCHANGED <<chunkStart, progress, delivered, rejectReason,
                              isMonitoring, isProcessing>>
          ELSE /\ \E usage \in UsageReads :
                    /\ chunkStart' = i + 1
                    /\ progress' = Append(progress, i + 1)
                    /\ IF shouldPauseForDevice(usage)
                       THEN /\ pc' = "mWait"
                            /\ itemState' = [itemState EXCEPT ![i] = st]
                       ELSE /\ pc' = "mItem"
                            /\ itemState' = [itemState EXCEPT ![i] = st,
                                                              ![i + 1] = "running"]
               /\ UNCHANGED <<sleeps, delivered, rejectReason, isMonitoring,
                              isProcessing>>
    /\ UNCHANGED <<envVars, mobileVars, mm, auxVars, fps, rafPending, errorCount, enhIsMobile,
                   files, level, batchSize, lastCheck>>

\* The inter-item timer of processBatchMobile fires: the next iteration runs.
MobileSleepDone ==
    /\ pc = "mSleep"
    /\ \E usage \in UsageReads :
          /\ chunkStart' = chunkStart + 1
          /\ progress' = Append(progress, chunkStart + 1)
          /\ IF shouldPauseForDevice(usage)
             THEN /\ pc' = "mWait"
                  /\ UNCHANGED itemState
             ELSE /\ pc' = "mItem"
                  /\ itemState' = [itemState EXCEPT ![chunkStart + 1] = "running"]
    /\ UNCHANGED <<envVars, mobileVars, mm, auxVars, monVars, isProcessing, enhIsMobile,
                   files, level, batchSize, enhancedFiles, delivered, rejectReason,
                   sleeps, lastCheck>>

\* PDFGenerator.generatePDF goes on with what applyImageEnhancement returned
\* and ends (isGenerating = false): the call's locals are gone.
GeneratePDFDone ==
    /\ pc = "done"
    /\ pc' = "idle"
    /\ files' = << >>
    /\ level' = 0
    /\ batchSize' = 0
    /\ chunkStart' = 0
    /\ itemState' = << >>
    /\ enhancedFiles' = << >>
    /\ delivered' = << >>
    /\ rejectReason' = "none"
    /\ progress' = << >>
    /\ sleeps' = << >>
    /\ lastCheck' = NoCheck
    /\ UNCHANGED <<envVars, mobileVars, mm, auxVars, monVars, isProcessing, enhIsMobile>>

\* A session of PDF generations: batch enhancement calls and their
\* continuations, the battery promise resolving and global error events; the
\* window keeps its size and the network its class.
Next ==
    \/ ApplyImageEnhancement
    \/ GeneratePDFDone
    \/ ItemSettle
    \/ ChunkDone
    \/ SleepDone
    \/ MobileWaitDone
    \/ MobileItemSettle
    \/ MobileSleepDone
    \/ BatteryReady
    \/ GlobalError

Spec == Init /\ [][Next]_vars

\* ------------------------------------------------- previews next to a batch
MaxPreviews == 2   \* showQualityCompare calls in flight at a time

\* ImageEnhancer.showQualityCompare(level) with a non-empty working list, up
\* to its await: it returns at once while isProcessing is set, otherwise sets
\* it and starts createPreviewEnhancement.
ShowQualityCompare ==
    /\ ~isProcessing
    /\ previews < MaxPreviews
    /\ previews' = previews + 1
    /\ isProcessing' = TRUE
    /\ UNCHANGED <<envVars, mobileVars, mm, monVars, orderVars, filterVars, frameCount,
                   returned, enhIsMobile, pc, files, level, batchSize, chunkStart,
                   itemState, enhancedFiles, delivered, rejectReason, progress, sleeps,
                   lastCheck>>

\* createPreviewEnhancement settles: the comparison is displayed or the
\* failure reported, and the finally block clears isProcessing.
QualityCompareDone ==
    /\ previews > 0
    /\ previews' = previews - 1
    /\ isProcessing' = FALSE
    /\ UNCHANGED <<envVars, mobileVars, mm, monVars, orderVars, filterVars, frameCount,
                   returned, enhIsMobile, pc, files, level, batchSize, chunkStart,
                   itemState, enhancedFiles, delivered, rejectReason, progress, sleeps,
                   lastCheck>>

\* The batch of Spec with previews requested next to it; the battery promise
\* and error events, which do not touch isProcessing, are left out.
NextPreview ==
    \/ ApplyImageEnhancement
    \/ GeneratePDFDone
    \/ ItemSettle
    \/ ChunkDone
    \/ SleepDone
    \/ MobileWaitDone
    \/ MobileItemSettle
    \/ MobileSleepDone
    \/ ShowQualityCompare
    \/ QualityCompareDone

SpecPreview == Init /\ [][NextPreview]_vars

\* ---------------------------------------------------- frame-rate loop
MaxFrames == 3

\* currentTime - lastTime at a frame, ms.
FrameTimes == {16, 1000, 1600}

\* Math.round((frameCount * 1000) / (currentTime - lastTime))
measuredFps(frames, dt) == (2 * frames * 1000 + dt) \div (2 * dt)

\* measureFPS(currentTime), the requestAnimationFrame callback.
MeasureFPS ==
    /\ rafPending
    /\ frameCount < MaxFrames
    /\ \E dt \in FrameTimes :
          IF dt >= 1000
          THEN /\ fps' = measuredFps(frameCount + 1, dt)
               /\ frameCount' = 0
          ELSE /\ fps' = fps
               /\ frameCount' = frameCount + 1
    /\ rafPending' = isMonitoring
    /\ UNCHANGED <<envVars, mobileVars, mm, isMonitoring, errorCount, batchVars,
                   orderVars, filterVars, callVars>>

\* The desktop page right after its scripts have run: the first frame is
\* still to come.
InitFrames ==
    /\ nav \in Devices
    /\ ~detectMobileDevice(nav, nav.small)
    /\ Modules
    /\ fps = Undefined
    /\ frameCount = 0
    /\ rafPending = TRUE
    /\ Idle

NextFrames ==
    \/ MeasureFPS
    \/ ApplyImageEnhancement
    \/ ItemSettle
    \/ ChunkDone
    \/ SleepDone
    \/ GeneratePDFDone

SpecFrames == InitFrames /\ [][NextFrames]_vars

\* The events that write the budget and the capability tier.
NextBudget ==
    \/ BatteryReady
    \/ BatteryLevelChange
    \/ BatteryChargingChange
    \/ NetworkChange
    \/ Resize

SpecBudget == Init /\ [][NextBudget]_vars

\* The tier's assessments: at construction from any combination of signals,
\* and again at each resize, with network changes in between.
NextAssess ==
    \/ NetworkChange
    \/ Resize

SpecAssess == InitAssess /\ [][NextAssess]_vars

\* ------------------------------------------- FileHandler and OrderDetector
\* A file name is a sequence of one-character strings.
MaxSelected == 4

Digit == {"0", "1", "2", "3", "4", "5", "6", "7", "8", "9"}

digitValue(ch) ==
    CASE ch = "0" -> 0 [] ch = "1" -> 1 [] ch = "2" -> 2 [] ch = "3" -> 3
      [] ch = "4" -> 4 [] ch = "5" -> 5 [] ch = "6" -> 6 [] ch = "7" -> 7
      [] ch = "8" -> 8 [] ch = "9" -> 9

\* parseInt(digits, 10)
RECURSIVE parseInt(_)
parseInt(s) ==
    IF s = << >> THEN 0
    ELSE 10 * parseInt(SubSeq(s, 1, Len(s) - 1)) + digitValue(s[Len(s)])

\* String.prototype.toLowerCase over the characters of the catalogue.
lowerChar(ch) ==
    CASE ch = "C" -> "c" [] ch = "O" -> "o" [] ch = "V" -> "v"
      [] ch = "E" -> "e" [] ch = "R" -> "r" [] OTHER -> ch

toLowerCase(s) == [i \in 1..Len(s) |-> lowerChar(s[i])]

startsWith(s, p) == Len(p) <= Len(s) /\ SubSeq(s, 1, Len(p)) = p

\* this.coverNames, Latin entries; every entry with an extension starts
\* with one of the three bare entries.
coverNames ==
    { <<"c", "o", "v", "e", "r">>, <<"C", "o", "v", "e", "r">>,
      <<"C", "O", "V", "E", "R">>,
      <<"c", "o", "v", "e", "r", ".", "j", "p", "g">>,
      <<"C", "o", "v", "e", "r", ".", "j", "p", "g">>,
      <<"c", "o", "v", "e", "r", ".", "p", "n", "g">>,
      <<"C", "o", "v", "e", "r", ".", "p", "n", "g">> }

isCoverFile(fileName) ==
    LET lowerName == toLowerCase(fileName)
    IN  \E coverName \in coverNames :
            \/ lowerName = toLowerCase(coverName)
            \/ startsWith(lowerName, toLowerCase(coverName))

\* fileName.replace(/\.[^/.]+$/, ''): the last dot and what follows it are
\* removed when at least one character follows.
withoutExtension(s) ==
    LET dots == {i \in 1..Len(s) : s[i] = "."}
        d    == CHOOSE i \in dots : \A j \in dots : j <= i
    IN  IF dots # {} /\ d < Len(s) THEN SubSeq(s, 1, d - 1) ELSE s

\* The maximal run of digits that starts at a / ends at b.
runEnd(s, a) ==
    CHOOSE b \in a..Len(s) :
        /\ \A k \in a..b : s[k] \in Digit
        /\ b = Len(s) \/ s[b + 1] \notin Digit

runStart(s, b) ==
    CHOOSE a \in 1..b :
        /\ \A k \in a..b : s[k] \in Digit
        /\ a = 1 \/ s[a - 1] \notin Digit

\* this.numberPatterns, in order: 1 is /^(\d+)/, 2 is /(\d+)/,
\* 3 is /[\D]*(\d+)[\D]*$/ and 4 is /.*?(\d+).*/.
numberPatterns == 1..4

\* parseInt(match[1], 10) of fileName.match(pattern), Undefined for null.
\* Pattern 1 captures the digits the name starts with; 2 and 4 capture the
\* first run of digits (the leftmost match, greedy \d+); 3 must reach the
\* end of the name through non-digits only, so it captures the last run.
matchNumber(pattern, s) ==
    LET ds    == {i \in 1..Len(s) : s[i] \in Digit}
        first == CHOOSE i \in ds : \A j \in ds : i <= j
        last  == CHOOSE i \in ds : \A j \in ds : j <= i
    IN  CASE pattern = 1 ->
               IF Len(s) > 0 /\ s[1] \in Digit
               THEN parseInt(SubSeq(s, 1, runEnd(s, 1))) ELSE Undefined
          [] pattern = 3 ->
               IF ds # {} THEN parseInt(SubSeq(s, runStart(s, last), last))
               ELSE Undefined
          [] OTHER ->
               IF ds # {} THEN parseInt(SubSeq(s, first, runEnd(s, first)))
               ELSE Undefined

\* Array.prototype.sort: a stable sort.  precedes holds the index pairs
\* <<j, i>> for which the comparator puts x[j] before x[i]; the result is
\* written as the position each element takes (the number of elements that
\* go before it).
indexPairs(x) == (1..Len(x)) \X (1..Len(x))

stableSort(x, precedes) ==
    LET before(i) == {j \in 1..Len(x) :
                        \/ <<j, i>> \in precedes
                        \/ <<i, j>> \notin precedes /\ j < i}
    IN  [k \in 1..Len(x) |->
            x[CHOOSE i \in 1..Len(x) : Cardinality(before(i)) = k - 1]]

\* sort((a, b) => a - b) on numbers and sort((a, b) => a.number - b.number)
\* on extracted items.
sortNumbers(numbers) ==
    stableSort(numbers, {q \in indexPairs(numbers) : numbers[q[1]] < numbers[q[2]]})

sortByNumberDescending(extracted) ==
    stableSort(extracted, {q \in indexPairs(extracted) :
                              extracted[q[1]].number > extracted[q[2]].number})

sortByNumber(extracted) ==
    stableSort(extracted, {q \in indexPairs(extracted) :
                              extracted[q[1]].number < extracted[q[2]].number})

isConsecutiveSequence(numbers) ==
    \/ Len(numbers) < 2
    \/ \A i \in 2..Len(numbers) : ~(numbers[i] - numbers[i - 1] > 2)

\* extractNumbers accepts the range when it is below files.length * 2.
hasReasonableRangeInclusive(numbers, n) ==
    numbers[Len(numbers)] - numbers[1] <= n * 2

hasReasonableRange(numbers, n) ==
    numbers[Len(numbers)] - numbers[1] < n * 2

\* extractNumbers(files, pattern); confidence in hundredths.
extractNumbers(fs, pattern) ==
    LET item(i) == [file |-> fs[i], originalIndex |-> i - 1,
                    number |-> matchNumber(pattern, withoutExtension(fs[i].name))]
        hasNumber(it) == it.number # Undefined
        extracted == SelectSeq([i \in 1..Len(fs) |-> item(i)], hasNumber)
        numbers == sortNumbers([i \in 1..Len(extracted) |-> extracted[i].number])
        isConsecutive == isConsecutiveSequence(numbers)
        sorted == sortByNumber(extracted)
    IN  IF 10 * Len(extracted) < Len(fs) * 7
        THEN [isValid |-> FALSE]
        ELSE IF isConsecutive \/ hasReasonableRange(numbers, Len(fs))
        THEN [isValid |-> TRUE, method |-> "numeric",
              orderedFiles |-> [i \in 1..Len(sorted) |-> sorted[i].file],
              confidence |-> IF isConsecutive THEN 100 ELSE 80]
        ELSE [isValid |-> FALSE]

\* analyzeNumbering(files): the first pattern whose extraction is valid.
RECURSIVE analyzeNumberingFrom(_, _)
analyzeNumberingFrom(fs, p) ==
    IF p \notin numberPatterns
    THEN [hasConsistentNumbering |-> FALSE, method |-> "none",
          orderedFiles |-> << >>, confidence |-> 0]
    ELSE LET extracted == extractNumbers(fs, p)
         IN  IF extracted.isValid
             THEN [hasConsistentNumbering |-> TRUE,
                   method |-> extracted.method,
                   orderedFiles |-> extracted.orderedFiles,
                   confidence |-> extracted.confidence]
             ELSE analyzeNumberingFrom(fs, p + 1)

analyzeNumbering(fs) == analyzeNumberingFrom(fs, 1)

\* analyzeFileNames(files) without the suggestion texts.
analyzeFileNames(fs) ==
    LET isCover(file) == \/ isCoverFile(file.name)
                         \/ isCoverFile(withoutExtension(file.name))
        covers == SelectSeq(fs, isCover)
        numberAnalysis == analyzeNumbering(fs)
    IN  [hasValidOrder  |-> numberAnalysis.hasConsistentNumbering,
         hasCover       |-> covers # << >>,
         coverFiles     |-> covers,
         numberedFiles  |-> IF numberAnalysis.hasConsistentNumbering
                            THEN numberAnalysis.orderedFiles ELSE << >>,
         orderingMethod |-> IF numberAnalysis.hasConsistentNumbering
                            THEN numberAnalysis.method ELSE "none"]

\* a.name.localeCompare(b.name) < 0 under the root collation: punctuation
\* before digits before letters, letter case ignored at the first level.
collationOrder ==
    <<".", "0", "1", "2", "3", "4", "5", "6", "7", "8", "9",
      "a", "c", "e", "g", "j", "n", "o", "p", "r", "v">>

collationRanks ==
    [ch \in {collationOrder[i] : i \in 1..Len(collationOrder)} |->
        CHOOSE i \in 1..Len(collationOrder) : collationOrder[i] = ch]

localeCompareLess(a, b) ==
    \E k \in 1..Len(b) :
        /\ \A j \in 1..(k - 1) :
              j <= Len(a) /\ collationRanks[lowerChar(a[j])] = collationRanks[lowerChar(b[j])]
        /\ k > Len(a) \/ collationRanks[lowerChar(a[k])] < collationRanks[lowerChar(b[k])]

\* sort((a, b) => a.name.localeCompare(b.name))
sortByName(fs) ==
    stableSort(fs, {q \in indexPairs(fs) :
                      localeCompareLess(fs[q[1]].name, fs[q[2]].name)})

isIn(file, fs) == \E i \in 1..Len(fs) : fs[i].id = file.id

\* The list applyDetectedOrder hands to fileHandler.updateFilesOrder.
applyDetectedOrder(fs, an) ==
    LET notCover(file) == ~isIn(file, an.coverFiles)
    IN  IF an.hasValidOrder /\ an.numberedFiles # << >>
        THEN an.coverFiles \o SelectSeq(an.numberedFiles, notCover)
        ELSE an.coverFiles \o sortByName(SelectSeq(fs, notCover))

\* The list continueProcessing (the modal's continue button) installs.
continueProcessing(fs, an) ==
    LET notCover(file) == ~isIn(file, an.coverFiles)
        sortedFiles == sortByName(fs)
    IN  IF an.hasCover /\ an.coverFiles # << >>
        THEN an.coverFiles \o SelectSeq(sortedFiles, notCover)
        ELSE sortedFiles

\* The names a selection is drawn from; a file's id is its catalogue index.
FileNames ==
    << <<"c", "o", "v", "e", "r", ".", "j", "p", "g">>,
       <<"C", "o", "v", "e", "r", "2", ".", "p", "n", "g">>,
       <<"0", "0", "1", ".", "j", "p", "g">>,
       <<"0", "0", "2", ".", "j", "p", "g">>,
       <<"0", "0", "3", ".", "j", "p", "g">>,
       <<"0", "0", "5", ".", "j", "p", "g">>,
       <<"a", ".", "j", "p", "g">>,
       <<"9", "a", "1", ".", "j", "p", "g">>,
       <<"2", "0", "a", "2", ".", "j", "p", "g">> >>

fileInfo(i) == [id |-> i, name |-> FileNames[i],
                lastModified |-> <<7, 3, 5, 5, 1, 9, 2, 8, 4>>[i]]

\* A selection as a list in ascending id order.
RECURSIVE listOf(_)
listOf(S) ==
    IF S = {} THEN << >>
    ELSE LET i == CHOOSE j \in S : \A k \in S : j <= k
         IN  <<fileInfo(i)>> \o listOf(S \ {i})

Selections ==
    {S \in SUBSET (1..Len(FileNames)) : S # {} /\ Cardinality(S) <= MaxSelected}

\* processFiles: the files are pushed in selection order, then sorted by name.
processFiles(S) == sortByName(listOf(S))

\* detectOrder's analysis of every selection, as processFiles hands it over.
detected ==
    { [files |-> processFiles(S), analysis |-> analyzeFileNames(processFiles(S))] :
        S \in Selections }

\* FileHandler.handleFileSelection for a selection of valid, readable files:
\* processFiles, then OrderDetector.detectOrder(this.files), which runs to
\* its end without awaiting.  The page is behind the modal while it is shown.
HandleFileSelection ==
    /\ orderModal = "hidden"
    /\ \E d \in detected :
          LET fs == d.files
              an == d.analysis
          IN  /\ analysis' = an
              /\ fileData' = {fs[i].id : i \in 1..Len(fs)}
              /\ IF an.hasValidOrder
                 THEN /\ orderStatus' = "success"
                      /\ fileHandlerFiles' = applyDetectedOrder(fs, an)
                      /\ orderModal' = "hidden"
                 ELSE /\ orderStatus' = "error"
                      /\ fileHandlerFiles' = fs
                      /\ orderModal' = "shown"
    /\ UNCHANGED <<envVars, mobileVars, mm, monVars, batchVars, filterVars, frameCount, callVars,
                   runs>>

\* modalContinue.onclick
ModalContinue ==
    /\ orderModal = "shown"
    /\ orderModal' = "hidden"
    /\ fileHandlerFiles' = continueProcessing(fileHandlerFiles, analysis)
    /\ orderStatus' = "warning"
    /\ UNCHANGED <<envVars, mobileVars, mm, monVars, batchVars, filterVars, frameCount, callVars, runs,
                   analysis, fileData>>

\* modalCancel.onclick
ModalCancel ==
    /\ orderModal = "shown"
    /\ orderModal' = "hidden"
    /\ fileHandlerFiles' = << >>
    /\ fileData' = {}
    /\ UNCHANGED <<envVars, mobileVars, mm, monVars, batchVars, filterVars, frameCount, callVars, runs,
                   analysis, orderStatus>>

\* modalClose.onclick
ModalClose ==
    /\ orderModal = "shown"
    /\ orderModal' = "hidden"
    /\ UNCHANGED <<envVars, mobileVars, mm, monVars, batchVars, filterVars, frameCount, callVars, runs,
                   fileHandlerFiles, fileData, analysis, orderStatus>>

\* ImageProcessor.sortByName (the sort button).  The buttons and preview
\* items below are behind the modal while it is shown.
SortByName ==
    /\ orderModal = "hidden"
    /\ fileHandlerFiles # << >>
    /\ fileHandlerFiles' = sortByName(fileHandlerFiles)
    /\ UNCHANGED <<envVars, mobileVars, mm, monVars, batchVars, filterVars, frameCount, callVars, runs,
                   fileData, analysis, orderStatus, orderModal>>

\* ImageProcessor.sortByDate: [...files].sort((a, b) => a.lastModified - b.lastModified)
SortByDate ==
    /\ orderModal = "hidden"
    /\ fileHandlerFiles # << >>
    /\ fileHandlerFiles' =
          stableSort(fileHandlerFiles,
                     {q \in indexPairs(fileHandlerFiles) :
                        fileHandlerFiles[q[1]].lastModified
                          < fileHandlerFiles[q[2]].lastModified})
    /\ UNCHANGED <<envVars, mobileVars, mm, monVars, batchVars, filterVars, frameCount, callVars, runs,
                   fileData, analysis, orderStatus, orderModal>>

\* ImageProcessor.reverseOrder
ReverseOrder ==
    /\ orderModal = "hidden"
    /\ fileHandlerFiles # << >>
    /\ fileHandlerFiles' = [i \in 1..Len(fileHandlerFiles) |->
                              fileHandlerFiles[Len(fileHandlerFiles) + 1 - i]]
    /\ UNCHANGED <<envVars, mobileVars, mm, monVars, batchVars, filterVars, frameCount, callVars, runs,
                   fileData, analysis, orderStatus, orderModal>>

\* ImageProcessor.handleDrop: the preview item at draggedIndex is dropped on
\* the one at targetIndex (0-based in the code, 1-based here):
\* splice(draggedIndex, 1) then splice(targetIndex, 0, movedFile).
HandleDrop ==
    /\ orderModal = "hidden"
    /\ \E draggedIndex \in 1..Len(fileHandlerFiles), targetIndex \in 1..Len(fileHandlerFiles) :
          /\ draggedIndex # targetIndex
          /\ LET movedFile == fileHandlerFiles[draggedIndex]
                 newFiles  == SubSeq(fileHandlerFiles, 1, draggedIndex - 1)
                              \o SubSeq(fileHandlerFiles, draggedIndex + 1,
                                        Len(fileHandlerFiles))
             IN  fileHandlerFiles' = SubSeq(newFiles, 1, targetIndex - 1)
                                     \o <<movedFile>>
                                     \o SubSeq(newFiles, targetIndex, Len(newFiles))
    /\ UNCHANGED <<envVars, mobileVars, mm, monVars, batchVars, filterVars, frameCount, callVars, runs,
                   fileData, analysis, orderStatus, orderModal>>

\* ImageProcessor.removeFile(file.id) from a preview item's delete button;
\* fileData keeps the entry.
RemoveFile ==
    /\ orderModal = "hidden"
    /\ \E k \in 1..Len(fileHandlerFiles) :
          LET keep(file) == file.id # fileHandlerFiles[k].id
          IN  fileHandlerFiles' = SelectSeq(fileHandlerFiles, keep)
    /\ UNCHANGED <<envVars, mobileVars, mm, monVars, batchVars, filterVars, frameCount, callVars, runs,
                   fileData, analysis, orderStatus, orderModal>>

\* FileHandler.clearFiles through the clear-all button.
ClearFiles ==
    /\ orderModal = "hidden"
    /\ fileHandlerFiles # << >>
    /\ fileHandlerFiles' = << >>
    /\ fileData' = {}
    /\ UNCHANGED <<envVars, mobileVars, mm, monVars, batchVars, filterVars, frameCount, callVars, runs,
                   analysis, orderStatus, orderModal>>

InitOrder == Init /\ ~isMobile /\ nav.deviceMemory = 32 /\ fps = Undefined

NextOrder ==
    \/ HandleFileSelection
    \/ ModalContinue
    \/ ModalCancel
    \/ ModalClose

SpecOrder == InitOrder /\ [][NextOrder]_vars

\* File selections followed by the user's own re-ordering and removals.
NextReorder ==
    \/ HandleFileSelection
    \/ ModalContinue
    \/ ModalCancel
    \/ ModalClose
    \/ SortByName
    \/ SortByDate
    \/ ReverseOrder
    \/ HandleDrop
    \/ RemoveFile
    \/ ClearFiles

SpecReorder == InitOrder /\ [][NextReorder]_vars

\* ------------------------------------------- file selections, read by read
MaxRuns == 2     \* handleFileSelection calls in a session
MaxRead == 2     \* valid files in one selection
LastPicked == 6  \* the files picked are among the first LastPicked of FileNames

\* handleFileSelection(fileList) with at least one valid file, up to the first
\* await of processFiles: the working list and fileData are emptied and the
\* first file's createFileInfo is started.  The earlier calls go on.
StartSelection ==
    /\ orderModal = "hidden"
    /\ Len(runs) < MaxRuns
    /\ \E S \in Selections :
          /\ Cardinality(S) <= MaxRead
          /\ \A i \in S : i <= LastPicked
          /\ runs' = Append(runs, [files |-> listOf(S), i |-> 1])
    /\ fileHandlerFiles' = << >>
    /\ fileData' = {}
    /\ UNCHANGED <<envVars, mobileVars, mm, monVars, batchVars, filterVars, frameCount, callVars,
                   analysis, orderStatus, orderModal>>

\* The createFileInfo a call is awaiting settles.  Resolved: the file info,
\* with the id generateFileId made for this read, is pushed on this.files and
\* entered in fileData; rejected: the file is skipped.  After the last file
\* the same task sorts this.files by name, and handleFileSelection resumes
\* with detectOrder(this.files).
FileRead ==
    \E r \in 1..Len(runs), ok \in BOOLEAN :
        LET run    == runs[r]
            info   == [fileInfo(run.files[run.i].id) EXCEPT !.id = 10 * r + run.files[run.i].id]
            pushed == IF ok THEN Append(fileHandlerFiles, info) ELSE fileHandlerFiles
            sorted == sortByName(pushed)
            an     == analyzeFileNames(sorted)
        IN  /\ run.i <= Len(run.files)
            /\ runs' = [runs EXCEPT ![r].i = run.i + 1]
            /\ fileData' = IF ok THEN fileData \cup {info.id} ELSE fileData
            /\ IF run.i < Len(run.files)
               THEN /\ fileHandlerFiles' = pushed
                    /\ UNCHANGED <<analysis, orderStatus, orderModal>>
               ELSE IF sorted = << >>
               THEN /\ fileHandlerFiles' = sorted
                    /\ orderStatus' = "error"
                    /\ UNCHANGED <<analysis, orderModal>>
               ELSE /\ analysis' = an
                    /\ IF an.hasValidOrder
                       THEN /\ orderStatus' = "success"
                            /\ fileHandlerFiles' = applyDetectedOrder(sorted, an)
                            /\ UNCHANGED orderModal
                       ELSE /\ orderStatus' = "error"
                            /\ fileHandlerFiles' = sorted
                            /\ orderModal' = "shown"
            /\ UNCHANGED <<envVars, mobileVars, mm, monVars, batchVars, filterVars,
                           frameCount, callVars>>

NextSelect ==
    \/ StartSelection
    \/ FileRead

SpecSelect == InitOrder /\ [][NextSelect]_vars

\* ------------------------------------------------------------ filter passes
\* Pixel data is the flat RGBA byte array of the code: data[pos] of the code
\* is data[pos + 1] here.  Strengths and kernel weights are in thousandths
\* (ten-thousandths for the preview kernel).
MaxMarked == 1

\* applyOptimizedSharpening's blockSize (512 px) on the scale of the small
\* canvases checked here; applyOptimizedEnhancement's threshold 1024 * 1024
\* and applyContrastEnhancement's blockSize 1024 keep their ratio to it.
blockSize == 2

tiledThreshold == (2 * blockSize) * (2 * blockSize)

contrastBlockSize == 2 * blockSize

padding == 1

\* enhancementLevels[level].strength
strengthOf(lv) == CASE lv = 1 -> 300 [] lv = 2 -> 600 [] lv = 3 -> 1000 [] OTHER -> 0

\* enhancementLevels[level].strength * 0.7
previewStrengthOf(lv) == (strengthOf(lv) * 7) \div 10

\* strengths[level] || 0.2
mobileStrengthOf(lv) == CASE lv = 1 -> 200 [] lv = 2 -> 400 [] lv = 3 -> 600 [] OTHER -> 200

\* new Uint8ClampedArray(...) / ImageData.data: an array of its own.
typedArray(f) == SubSeq(f, 1, Len(f))

\* data[pos]; Undefined outside the array.
at(data, pos) == IF pos >= 0 /\ pos < Len(data) THEN data[pos + 1] ELSE Undefined

\* The byte a Uint8ClampedArray stores for a value n / K: clamped, rounded
\* to the nearest integer, halves to the even one.
roundHalfEven(n, K) ==
    LET q == n \div K
        r == n % K
    IN  IF 2 * r < K THEN q
        ELSE IF 2 * r > K THEN q + 1
        ELSE IF q % 2 = 0 THEN q ELSE q + 1

\* array[i] = Math.max(0, Math.min(255, sum))
clampStore(sum, K) == roundHalfEven(Max(0, Min(255 * K, sum)), K)

\* array[i] = value where value may be undefined (stored as 0).
storeByte(v) == IF v = Undefined THEN 0 ELSE v

\* The 3x3 loops shared by the sharpening passes: every RGB byte of a pixel
\* that is not on the border of the w x h array is replaced by the clamped
\* weighted sum of its neighbourhood in data; all other bytes are copied.
convolve(data, w, h, kernel, K) ==
    typedArray(
      [i \in 1..Len(data) |->
        LET pos == i - 1
            c   == pos % 4
            x   == (pos \div 4) % w
            y   == (pos \div 4) \div w
            tap(ky, kx) == data[((y + ky) * w + (x + kx)) * 4 + c + 1]
                              * kernel[(ky + 1) * 3 + (kx + 1) + 1]
        IN  IF c < 3 /\ x >= 1 /\ x < w - 1 /\ y >= 1 /\ y < h - 1
            THEN clampStore(tap(-1, -1) + tap(-1, 0) + tap(-1, 1)
                            + tap(0, -1) + tap(0, 0) + tap(0, 1)
                            + tap(1, -1) + tap(1, 0) + tap(1, 1), K)
            ELSE data[i]])

\* kernel of applyHighQualitySharpening and processImageBlock
sharpenKernel(s) == <<0, 0 - s, 0, 0 - s, 1000 + 4 * s, 0 - s, 0, 0 - s, 0>>

\* kernel of applyPreviewEnhancement, in ten-thousandths
previewKernel(s) ==
    <<0 - s, 0 - 3 * s, 0 - s, 0 - 3 * s, 10000 + 16 * s, 0 - 3 * s,
      0 - s, 0 - 3 * s, 0 - s>>

\* ctx.getImageData(x, y, w, h)
getImageData(cv, x, y, w, h) ==
    typedArray(
      [i \in 1..(w * h * 4) |->
        LET p == (i - 1) \div 4
        IN  cv.data[((y + (p \div w)) * cv.width + x + (p % w)) * 4 + ((i - 1) % 4) + 1]])

\* ctx.putImageData(imageData, dx, dy) on a context created with
\* alpha: false: the canvas stays opaque.
putImageData(cv, buf, w, h, dx, dy) ==
    [cv EXCEPT !.data =
      typedArray(
        [i \in 1..Len(cv.data) |->
          LET p == (i - 1) \div 4
              c == (i - 1) % 4
              X == p % cv.width
              Y == p \div cv.width
          IN  IF X >= dx /\ X < dx + w /\ Y >= dy /\ Y < dy + h
              THEN IF c = 3 THEN 255
                   ELSE buf[((Y - dy) * w + (X - dx)) * 4 + c + 1]
              ELSE cv.data[i]])]

written(x, y, w, h, data) == [x |-> x, y |-> y, width |-> w, height |-> h, data |-> data]

applyHighQualitySharpeningDoubled(cv, s) ==
    LET newData == convolve(getImageData(cv, 0, 0, cv.width, cv.height),
                            cv.width, cv.height, sharpenKernel(2 * s), 1000)
    IN  [ctx     |-> putImageData(cv, newData, cv.width, cv.height, 0, 0),
         buffers |-> <<written(0, 0, cv.width, cv.height, newData)>>]

\* applyHighQualitySharpening(ctx, width, height, strength)
applyHighQualitySharpening(cv, s) ==
    LET newData == convolve(getImageData(cv, 0, 0, cv.width, cv.height),
                            cv.width, cv.height, sharpenKernel(s), 1000)
    IN  [ctx     |-> putImageData(cv, newData, cv.width, cv.height, 0, 0),
         buffers |-> <<written(0, 0, cv.width, cv.height, newData)>>]

\* The centerData processImageBlock builds for one block.
centerData(cv, startX, startY, blockWidth, blockHeight, s) ==
    LET x == Max(0, startX - padding)
        y == Max(0, startY - padding)
        w == Min(cv.width - x, blockWidth + 2 * padding)
        h == Min(cv.height - y, blockHeight + 2 * padding)
        data    == getImageData(cv, x, y, w, h)
        newData == convolve(data, w, h, sharpenKernel(s), 1000)
    IN  typedArray(
          [i \in 1..(blockWidth * blockHeight * 4) |->
            LET dst == (i - 1) \div 4
                c   == (i - 1) % 4
                px  == dst % blockWidth
                py  == dst \div blockWidth
                srcPos == ((py + padding) * w + (px + padding)) * 4
            IN  IF c < 3 THEN storeByte(at(newData, srcPos + c))
                ELSE storeByte(at(data, srcPos + 3))])

\* The blocks of applyOptimizedSharpening / applyContrastEnhancement in loop
\* order (startX runs fastest).
blocks(cv, size) ==
    LET nx == (cv.width + size - 1) \div size
        ny == (cv.height + size - 1) \div size
    IN  [k \in 1..(nx * ny) |->
            LET startX == ((k - 1) % nx) * size
                startY == ((k - 1) \div nx) * size
            IN  [startX |-> startX, startY |-> startY,
                 blockWidth  |-> Min(size, cv.width - startX),
                 blockHeight |-> Min(size, cv.height - startY)]]

\* applyOptimizedSharpening from its k-th processImageBlock call on.
RECURSIVE applyOptimizedSharpeningFrom(_, _, _)
applyOptimizedSharpeningFrom(r, s, k) ==
    IF k > Len(blocks(r.ctx, blockSize)) THEN r
    ELSE LET b   == blocks(r.ctx, blockSize)[k]
             buf == centerData(r.ctx, b.startX, b.startY, b.blockWidth,
                               b.blockHeight, s)
         IN  applyOptimizedSharpeningFrom(
                [ctx     |-> putImageData(r.ctx, buf, b.blockWidth, b.blockHeight,
                                          b.startX, b.startY),
                 buffers |-> Append(r.buffers,
                                    written(b.startX, b.startY, b.blockWidth,
                                            b.blockHeight, buf))],
                s, k + 1)

applyOptimizedSharpening(cv, s) ==
    applyOptimizedSharpeningFrom([ctx |-> cv, buffers |-> << >>], s, 1)

\* enhanceBlockContrast's data after its loop; factor in hundredths.
\* contrast = (f + 1)^2 / (f (f + 1) + 1) and
\* value * 255 = (d - 127.5) * contrast + 127.5.
contrastData(data, factor) ==
    LET num == (factor + 100) * (factor + 100)
        den == factor * (factor + 100) + 10000
    IN  typedArray(
          [i \in 1..Len(data) |->
            IF (i - 1) % 4 < 3
            THEN clampStore((2 * data[i] - 255) * num + 255 * den, 2 * den)
            ELSE data[i]])

RECURSIVE applyContrastEnhancementFrom(_, _, _)
applyContrastEnhancementFrom(r, factor, k) ==
    IF k > Len(blocks(r.ctx, contrastBlockSize)) THEN r
    ELSE LET b   == blocks(r.ctx, contrastBlockSize)[k]
             buf == contrastData(getImageData(r.ctx, b.startX, b.startY,
                                              b.blockWidth, b.blockHeight), factor)
         IN  applyContrastEnhancementFrom(
                [ctx     |-> putImageData(r.ctx, buf, b.blockWidth, b.blockHeight,
                                          b.startX, b.startY),
                 buffers |-> Append(r.buffers,
                                    written(b.startX, b.startY, b.blockWidth,
                                            b.blockHeight, buf))],
                factor, k + 1)

\* applyOptimizedEnhancement(ctx, width, height, level), level > 0.
applyOptimizedEnhancement(cv, lv) ==
    LET s == strengthOf(lv)
        tiled == ~(cv.width * cv.height < tiledThreshold)
        sharp == IF tiled THEN applyOptimizedSharpening(cv, s)
                 ELSE applyHighQualitySharpening(cv, s)
        done  == IF s > 600
                 THEN applyContrastEnhancementFrom(sharp, (s - 600) \div 20, 1)
                 ELSE sharp
    IN  [ctx |-> done.ctx, buffers |-> done.buffers,
         passes |-> <<IF tiled THEN "optimized" ELSE "highQuality">>
                       \o (IF s > 600 THEN <<"contrast">> ELSE << >>)]

\* applyPreviewEnhancement(ctx, width, height, level), level > 0.
applyPreviewEnhancement(cv, lv) ==
    LET newData == convolve(getImageData(cv, 0, 0, cv.width, cv.height),
                            cv.width, cv.height,
                            previewKernel(previewStrengthOf(lv)), 10000)
    IN  [ctx     |-> putImageData(cv, newData, cv.width, cv.height, 0, 0),
         buffers |-> <<written(0, 0, cv.width, cv.height, newData)>>]

\* applyCPUSharpening(ctx, width, height, strength)
applyCPUSharpening(cv, s) ==
    LET data   == getImageData(cv, 0, 0, cv.width, cv.height)
        width  == cv.width
        center == 1000 + 4 * s
        edge   == 0 - s
        output ==
          typedArray(
            [i \in 1..Len(data) |->
              LET pos == i - 1
                  c   == pos % 4
                  x   == (pos \div 4) % width
                  y   == (pos \div 4) \div width
              IN  IF c < 3 /\ x >= 1 /\ x < width - 1 /\ y >= 1 /\ y < cv.height - 1
                  THEN clampStore(data[pos + 1] * center
                                  + data[pos - 4 + 1] * edge
                                  + data[pos + 4 + 1] * edge
                                  + data[pos - width * 4 + 1] * edge
                                  + data[pos + width * 4 + 1] * edge, 1000)
                  ELSE data[i]])
    IN  [ctx     |-> putImageData(cv, output, cv.width, cv.height, 0, 0),
         buffers |-> <<written(0, 0, cv.width, cv.height, output)>>]

\* applyLightweightSharpening(ctx, width, height, level): strengths[0] is 0,
\* which is falsy, so level 0 takes the 0.2 of "strengths[level] || 0.2" like
\* a level outside the table, and the strength === 0 return is never taken.
\* canUseWebGL only chooses between applyWebGLSharpening, which calls
\* applyCPUSharpening, and applyCPUSharpening itself.
applyLightweightSharpening(cv, lv) ==
    LET strength == mobileStrengthOf(lv)
    IN  IF strength = 0 THEN [ctx |-> cv, buffers |-> << >>]
        ELSE applyCPUSharpening(cv, strength)

\* The canvases drawImage produces here: a grey page with at most MaxMarked
\* coloured pixels, in three shapes (four blocks, one row of blocks, and one
\* below the threshold of the tiled path).
CanvasSizes == {<<2 * blockSize, 2 * blockSize>>, <<4 * blockSize, blockSize>>, <<3, 3>>}

backgroundPixel == <<100, 100, 100, 255>>

markedPixel == <<200, 40, 255, 255>>

drawImage(w, h, marked) ==
    [width |-> w, height |-> h,
     data  |-> typedArray([i \in 1..(w * h * 4) |->
                  IF ((i - 1) \div 4) \in marked THEN markedPixel[((i - 1) % 4) + 1]
                  ELSE backgroundPixel[((i - 1) % 4) + 1]])]

DrawnCanvases ==
    UNION { {drawImage(sz[1], sz[2], marked) :
               marked \in {M \in SUBSET (0..(sz[1] * sz[2] - 1)) :
                              Cardinality(M) <= MaxMarked}} :
            sz \in CanvasSizes }

\* performEnhancement after img.onload, up to toDataURL.
PerformEnhancement ==
    /\ passes = << >>
    /\ LET r == applyOptimizedEnhancement(ctx, strengthLevel)
       IN  /\ ctx' = r.ctx
           /\ buffers' = r.buffers
           /\ passes' = r.passes
    /\ UNCHANGED <<envVars, mobileVars, mm, monVars, batchVars, orderVars, frameCount, callVars,
                   original, strengthLevel>>

\* createPreviewEnhancement after img.onload.
CreatePreviewEnhancement ==
    /\ passes = << >>
    /\ LET r == applyPreviewEnhancement(ctx, strengthLevel)
       IN  /\ ctx' = r.ctx
           /\ buffers' = r.buffers
           /\ passes' = <<"preview">>
    /\ UNCHANGED <<envVars, mobileVars, mm, monVars, batchVars, orderVars, frameCount, callVars,
                   original, strengthLevel>>

\* applyMobileFriendlyEnhancement after img.onload.
ApplyMobileFriendlyEnhancement ==
    /\ passes = << >>
    /\ LET r == applyLightweightSharpening(ctx, strengthLevel)
       IN  /\ ctx' = r.ctx
           /\ buffers' = r.buffers
           /\ passes' = <<"mobileCPU">>
    /\ UNCHANGED <<envVars, mobileVars, mm, monVars, batchVars, orderVars, frameCount, callVars,
                   original, strengthLevel>>

\* applyLightweightSharpening called on the drawn canvas with any level of
\* its table.
ApplyLightweightSharpening ==
    /\ passes = << >>
    /\ \E lv \in Levels :
          LET r == applyLightweightSharpening(ctx, lv)
          IN  /\ strengthLevel' = lv
              /\ ctx' = r.ctx
              /\ buffers' = r.buffers
              /\ passes' = <<"lightweight">>
    /\ UNCHANGED <<envVars, mobileVars, mm, monVars, batchVars, orderVars, frameCount, callVars,
                   original>>

\* An image has been drawn on a fresh canvas for a call with level 1..3.
InitFilter ==
    /\ nav \in Devices
    /\ nav.deviceMemory = 32
    /\ Constructed
    /\ fps = Undefined
    /\ ctx \in DrawnCanvases
    /\ original = ctx
    /\ strengthLevel \in 1..3
    /\ passes = << >>
    /\ buffers = << >>
    /\ returned = << >>
    /\ previews = 0

NextFilter ==
    \/ PerformEnhancement
    \/ CreatePreviewEnhancement
    \/ ApplyMobileFriendlyEnhancement
    \/ ApplyLightweightSharpening

SpecFilter == InitFilter /\ [][NextFilter]_vars


\* ------------------------------------------------ methods called directly
\* The methods below read no state but their arguments (and the cap), so one
\* call per behaviour covers them.
\* A call of MemoryManager.getOptimalImageSize (cap: this.maxImageSize) or of
\* ImageEnhancerMobile.calculateOptimalSize (cap: the maxSize argument, which
\* enhanceImageMobile takes from optimizationSettings.maxImageSize).  The
\* sides and caps are ones for which the double-precision square root and
\* products of the code give the exact floor.
GetOptimalImageSize ==
    /\ returned = << >>
    /\ \E originalWidth  \in {1, 3, 9, 1024, 2048, 3000, 4000},
          originalHeight \in {1, 3, 9, 1024, 2048, 3000, 4000},
          method \in {"getOptimalImageSize", "calculateOptimalSize"} :
          \E cap \in {4, 1024 * 768, 1024 * 1024, 3840 * 2160}
                     \cup (IF method = "getOptimalImageSize"
                           THEN {mm.maxImageSize}
                           ELSE {optimizationSettings.maxImageSize}) :
             returned' = [method |-> method,
                          args   |-> <<originalWidth, originalHeight, cap>>,
                          value  |-> getOptimalImageSize(originalWidth,
                                                         originalHeight, cap)]
    /\ UNCHANGED <<envVars, mobileVars, mm, monVars, batchVars, orderVars,
                   filterVars, frameCount, previews>>

calculateImagePlacementFillWidth(imageDimensions, pageDimensions, orientation) ==
    LET iw == imageDimensions.width
        ih == imageDimensions.height
        pw == pageDimensions.width
        ph == pageDimensions.height
    IN  [x |-> <<0, 2>>, y |-> <<ph * iw - pw * ih, 2 * iw>>,
         width |-> <<pw, 1>>, height |-> <<pw * ih, iw>>]

\* PDFGenerator.calculateImagePlacement.  The quotients of the code are kept
\* as fractions <<numerator, denominator>> with positive denominators:
\* imageAspect = iw / ih, pageAspect = pw / ph.
calculateImagePlacement(imageDimensions, pageDimensions, orientation) ==
    LET iw == imageDimensions.width
        ih == imageDimensions.height
        pw == pageDimensions.width
        ph == pageDimensions.height
        \* width = page width, height = width / imageAspect
        byWidth  == [width |-> <<pw, 1>>, height |-> <<pw * ih, iw>>]
        \* height = page height, width = height * imageAspect
        byHeight == [width |-> <<ph * iw, ih>>, height |-> <<ph, 1>>]
        size == IF orientation = "auto"
                THEN IF iw * ph > pw * ih THEN byWidth ELSE byHeight
                ELSE IF orientation = "landscape"
                THEN IF pw * ih > ph * iw THEN byHeight ELSE byWidth
                ELSE IF ph * iw > pw * ih THEN byWidth ELSE byHeight
    IN  [x |-> <<pw * size.width[2] - size.width[1], 2 * size.width[2]>>,
         y |-> <<ph * size.height[2] - size.height[1], 2 * size.height[2]>>,
         width |-> size.width, height |-> size.height]

\* A call of calculateImagePlacement as addImagesToPDF makes it: the image's
\* pixel dimensions, the content area of the page, the orientation setting.
CalculateImagePlacement ==
    /\ returned = << >>
    /\ \E iw \in {1, 2, 3, 5}, ih \in {1, 2, 3, 5}, pw \in {2, 3, 7}, ph \in {2, 3, 7},
          orientation \in {"auto", "landscape", "portrait"} :
          LET imageDimensions == [width |-> iw, height |-> ih]
              pageDimensions  == [width |-> pw, height |-> ph]
          IN  returned' = [method |-> "calculateImagePlacement",
                           args   |-> <<imageDimensions, pageDimensions, orientation>>,
                           value  |-> calculateImagePlacement(imageDimensions,
                                                              pageDimensions, orientation)]
    /\ UNCHANGED <<envVars, mobileVars, mm, monVars, batchVars, orderVars,
                   filterVars, frameCount, previews>>

NextCalls ==
    \/ GetOptimalImageSize
    \/ CalculateImagePlacement

SpecCalls == Init /\ [][NextCalls]_vars


\* ------------------------------------------------ properties of the budget
processingDelay == optimizationSettings.processingDelay
maxBatchSize    == optimizationSettings.maxBatchSize

C1_ItemFailureAbsorbed ==
    /\ \A k \in 1 .. Len(enhancedFiles) :
          itemState[k] = "failed" => enhancedFiles[k] = files[k]
    /\ pc = "done" /\ rejectReason = "none" /\ level > 0 =>
          /\ Len(delivered) = Len(files)
          /\ \A k \in 1 .. Len(files) :
                /\ itemState[k] \in {"ok", "failed"}
                /\ itemState[k] = "failed" => delivered[k] = files[k]
                /\ itemState[k] = "ok" => delivered[k].enhanced
    /\ pc = "done" /\ rejectReason = "paused" => lastCheck.reason # "none"
    /\ enhIsMobile => rejectReason # "paused"

\* a desktop batch returned normally although its first item failed: entry 1
\* is the original, entry 2 is enhanced.
C1_Witness ==
    /\ pc = "done" /\ ~enhIsMobile /\ rejectReason = "none" /\ Len(files) >= 3
    /\ itemState[1] = "failed" /\ itemState[2] = "ok"
    /\ delivered[1] = files[1] /\ delivered[2].enhanced

C3_NoAbortOfProcessedBatch ==
    pc = "done" /\ rejectReason = "paused" =>
        /\ lastCheck.reason # "none"
        /\ lastCheck.at < Len(files)

\* C4: level 0 is a no-op. enhanceImageSafely, createPreviewEnhancement and
\* enhanceImageMobile return the payload they were given (an original one or
\* an already enhanced one), and a batch call with level 0 returns the input
\* list itself with no item started, no check made and monitoring not started.
C4_LevelZeroIsNoOp ==
    /\ \A k \in 1 .. Len(files) :
          LET x == files[k].imageData IN
          /\ enhanceImageSafely(x, 0, mm) = x
          /\ createPreviewEnhancement(x, 0) = x
          /\ enhanceImageMobile(x, 0, optimizationSettings) = x
    /\ \A k \in 1 .. Len(enhancedFiles) :
          LET y == enhancedFiles[k].imageData IN
          /\ enhanceImageSafely(y, 0, mm) = y
          /\ createPreviewEnhancement(y, 0) = y
          /\ enhanceImageMobile(y, 0, optimizationSettings) = y
    /\ pc = "done" /\ level = 0 =>
          /\ delivered = files /\ rejectReason = "none"
          /\ progress = << >> /\ enhancedFiles = << >> /\ lastCheck = NoCheck
          /\ \A k \in 1 .. Len(files) : itemState[k] = "pending"
          /\ ~isMonitoring /\ ~isProcessing

\* a level-0 call on several files has returned
C4_Witness ==
    /\ pc = "done" /\ level = 0 /\ Len(files) >= 2
    /\ delivered = files /\ ~isMonitoring

\* C5: in enhanceImagesBatch the items in flight all belong to the current
\* chunk; every item up to the place of the latest shouldPauseProcessing
\* check had settled when the check ran; no item after the current chunk has
\* been started and every item before it has settled; an item in flight is
\* never abandoned: it stays in flight until it succeeds or fails.
C5_ChunkBarrier ==
    /\ [](~enhIsMobile =>
            LET n       == Len(files)
                running == {k \in 1 .. n : itemState[k] = "running"}
                last    == Min(chunkStart + batchSize - 1, n)
            IN /\ running \subseteq chunkOf(chunkStart, batchSize, n)
               /\ Cardinality(running) <= batchSize
               /\ pc # "chunk" => running = {}
               /\ \A k \in 1 .. n :
                     /\ k <= lastCheck.at => itemState[k] \in {"ok", "failed"}
                     /\ k < chunkStart => itemState[k] \in {"ok", "failed"}
                     /\ k > last => itemState[k] = "pending")
    /\ [][\A k \in 1 .. Len(files) :
             itemState[k] = "running" =>
                /\ Len(itemState') = Len(itemState)
                /\ itemState'[k] \in {"running", "ok", "failed"}]_vars

\* the second chunk of a desktop batch with two items in flight and one settled
C5_Witness ==
    /\ ~enhIsMobile /\ pc = "chunk" /\ chunkStart > 1
    /\ Cardinality({k \in 1 .. Len(files) : itemState[k] = "running"}) >= 2
    /\ \E k \in chunkOf(chunkStart, batchSize, Len(files)) :
          itemState[k] \in {"ok", "failed"}

\* C6 (as the code behaves): enhanceImagesBatch takes its chunk size from
\* PerformanceMonitor.optimizeForDevice (1, 2, 3 or 5) and sleeps a fixed
\* 100 ms between two chunks and not after the last one; processBatchMobile
\* handles one item at a time and sleeps the budget's processingDelay after
\* an item that succeeded and is not the last, and not at all after an item
\* that failed.
C6_ChunkSizeAndDelay ==
    /\ [](pc \in {"chunk", "sleep"} =>
            /\ ~enhIsMobile
            /\ batchSize = optimizeForDevice(nav, innerSmall)
            /\ batchSize \in {1, 2, 3, 5})
    /\ [](pc \in {"mWait", "mItem", "mSleep"} => enhIsMobile /\ batchSize = 1)
    /\ [][Len(sleeps') > Len(sleeps) =>
            sleeps' = Append(sleeps, IF enhIsMobile THEN processingDelay ELSE 100)]_vars
    /\ [](pc = "done" /\ rejectReason = "none" /\ level > 0 =>
            LET n == Len(files) IN
            Len(sleeps) = IF enhIsMobile
                          THEN Cardinality({k \in 1 .. n - 1 : itemState[k] = "ok"})
                          ELSE (n + batchSize - 1) \div batchSize - 1)

\* a phone at battery level 0.1, not charging (budget: 1100 ms, batch 1),
\* finished a batch in which an item before the last failed: fewer sleeps
\* than item boundaries, each of them 1100 ms.
C6_Witness ==
    /\ pc = "done" /\ rejectReason = "none" /\ enhIsMobile
    /\ batteryReady /\ battLevel = 10 /\ ~battCharging
    /\ Len(files) >= 3 /\ itemState[1] = "ok" /\ itemState[2] = "failed"
    /\ sleeps = <<1100>>

\* C6 as stated: the chunk size of a running desktop batch is the budget's
\* maxBatchSize and at most 3, and every sleep between chunks lasted the
\* budget's processingDelay.
C6_ChunkSizeFromBudget ==
    pc \in {"chunk", "sleep"} =>
        /\ batchSize = maxBatchSize
        /\ batchSize <= 3
        /\ \A j \in 1 .. Len(sleeps) : sleeps[j] = processingDelay

\* C7: a refusal comes before any work. After enhanceImages has refused, no
\* item has been started or modified, the caller holds the original list, and
\* isProcessing and isMonitoring are false. The refusal is raised when the
\* estimate exceeds the memory share (a 0.25 GB desktop given 7 files), when
\* shouldPauseProcessing is already critical, or on a low-tier mobile device
\* given more than 5 files; otherwise the batch starts. After a refusal
\* nothing runs until the next call.
C7_RefusedBeforeAnyWork ==
    /\ [](pc = "done" /\ rejectReason \in {"memory_exceeded", "device_critical",
                                           "low_tier_limit"} =>
            /\ progress = << >> /\ enhancedFiles = << >>
            /\ \A k \in 1 .. Len(files) : itemState[k] = "pending"
            /\ delivered = files
            /\ ~isProcessing /\ ~isMonitoring)
    /\ [][pc = "idle" /\ pc' # "idle" /\ level' > 0 =>
            LET n == Len(files') IN
            /\ ~nav.ua /\ ~innerSmall /\ nav.deviceMemory = 1 /\ n = 7
                  => rejectReason' = "memory_exceeded"
            /\ rejectReason' # "memory_exceeded"
                  /\ (lastCheck'.reason # "none"
                         \/ (fps # Undefined /\ fps < 10) \/ errorCount > 5)
                  => rejectReason' = "device_critical"
            /\ rejectReason' = "low_tier_limit"
                  <=> /\ lastCheck'.reason = "none"
                      /\ canProcessBatch(files', nav, innerSmall, mm)
                      /\ enhIsMobile /\ deviceCapability.level = "low" /\ n > 5
            /\ rejectReason' = "none"
                  => pc' # "done" /\ isProcessing' /\ isMonitoring'
                     /\ progress' # << >>]_vars
    /\ [][pc = "done" => pc' \in {"done", "idle"}
                          /\ Len(progress') <= Len(progress)]_vars

\* the 0.25 GB desktop refused 7 files for memory
C7_Witness ==
    /\ pc = "done" /\ rejectReason = "memory_exceeded"
    /\ Len(files) = 7 /\ delivered = files /\ progress = << >>
    /\ ~isProcessing /\ ~isMonitoring

\* C8: every entry of the output is the original item, not marked enhanced,
\* or the item with enhanced = true, enhancementLevel = the requested level
\* and the payload the completed enhancement produced; in both cases id,
\* name, size and dimensions are those set at ingestion, and they are the
\* dimensions the layout places the image with.
C8_OriginalOrFullyEnhanced ==
    \A out \in {enhancedFiles, delivered} :
       \A k \in 1 .. Len(out) :
          LET e == out[k]
              f == files[k]
          IN /\ \/ e = f /\ ~e.enhanced
                \/ /\ e.enhanced /\ e.enhancementLevel = level /\ level > 0
                   /\ e.imageData =
                        IF enhIsMobile
                        THEN enhanceImageMobile(f.imageData, level, optimizationSettings)
                        ELSE enhanceImageSafely(f.imageData, level, mm)
             /\ f = createFileInfo(k, CatalogueDims(k))
             /\ e.id = f.id /\ e.name = f.name /\ e.size = f.size
             /\ e.dimensions = f.dimensions
             /\ placementDimensions(e) = f.dimensions

\* a returned item whose payload was scaled down by the enhancement while its
\* dimensions field still holds the ingested width and height
C8_Witness ==
    /\ pc = "done" /\ rejectReason = "none" /\ level = 3
    /\ delivered[1].enhanced
    /\ delivered[1].imageData.width < files[1].dimensions.width
    /\ delivered[1].dimensions = files[1].dimensions

C12_SlowNetworkOverride ==
    /\ [][NetworkChange /\ isMobile /\ effectiveType' \in {"slow-2g", "2g"} =>
            /\ optimizationSettings'.maxImageSize =
                  getOptimizationSettings([level |-> "low"]).maxImageSize
            /\ optimizationSettings'.qualityReduction = 30
            /\ "slow_network" \in warnings']_vars
    /\ [](isMobile /\ effectiveType \in {"slow-2g", "2g"} =>
            /\ optimizationSettings.maxImageSize = 786432
            /\ optimizationSettings.qualityReduction >= 20)
    /\ [][NetworkChange /\ ~isMobile => UNCHANGED optimizationSettings]_vars

\* a phone with high-tier hardware after its network fell to 2g
C12_Witness ==
    /\ isMobile /\ nav.deviceMemory = 32 /\ nav.cores = 8
    /\ effectiveType = "2g" /\ "slow_network" \in warnings
    /\ optimizationSettings.maxImageSize = 786432
    /\ optimizationSettings.qualityReduction = 30

\* C12 as stated: after every network-change event that finds the class at
\* 2G or slower the budget has the low-tier pixel cap, qualityReduction
\* >= 0.2 and the warning has been issued.
C12_EveryDeviceOverridden ==
    [][effectiveType' # effectiveType /\ effectiveType' \in {"slow-2g", "2g"} =>
          /\ optimizationSettings'.maxImageSize =
                getOptimizationSettings([level |-> "low"]).maxImageSize
          /\ optimizationSettings'.qualityReduction >= 20
          /\ "slow_network" \in warnings']_vars

C19_TierAndBudgetCurrent ==
    /\ [][innerSmall' # innerSmall \/ effectiveType' # effectiveType
                                   \/ battLevel' # battLevel =>
            deviceCapability' =
               assessDeviceCapability(nav, detectMobileDevice(nav, innerSmall'),
                                      effectiveType')]_vars
    /\ [][deviceCapability'.level # deviceCapability.level /\ ~batteryReady =>
            /\ processingDelay' =
                  getOptimizationSettings(deviceCapability').processingDelay
            /\ maxBatchSize' =
                  getOptimizationSettings(deviceCapability').maxBatchSize]_vars

\* ---------------------------------------------------------------- C14
\* C14 (as stated): after order detection on a file set that contains cover
\* files, the working list begins with the cover files and the other files
\* follow in the order of their numbers; for cover.jpg, 001.jpg, 002.jpg the
\* list is cover.jpg, 001.jpg, 002.jpg.
C14_CoversHoisted ==
    LET idsOf(fs) == [i \in 1..Len(fs) |-> fs[i].id]
    IN
    /\ (orderStatus \in {"success", "error"} /\ fileHandlerFiles # << >>
          /\ analysis.hasCover)
       => startsWith(idsOf(fileHandlerFiles), idsOf(analysis.coverFiles))
    /\ (orderStatus \in {"success", "error"}
          /\ {fileHandlerFiles[i].id : i \in 1..Len(fileHandlerFiles)} = {1, 3, 4})
       => idsOf(fileHandlerFiles) = <<1, 3, 4>>

\* ---------------------------------------------------------------- C15
\* C15: whenever the analysis of a list reports hasValidOrder, whatever the
\* order of the list, its numberedFiles are files of the list in
\* non-decreasing order of the integer the deciding pattern extracts from
\* the name without its extension; 003.jpg, 001.jpg, 002.jpg in any order
\* give hasValidOrder and 001, 002, 003.  A detection that reports no valid
\* order leaves the working list as processFiles built it, sorted by name.
C15_NumericOrder ==
    LET idsOf(fs) == [i \in 1..Len(fs) |-> fs[i].id]
        arrangements(fs) ==
            {[i \in 1..Len(fs) |-> fs[f[i]]] : f \in Permutations(1..Len(fs))}
        decidingPattern(fs) ==
            CHOOSE p \in numberPatterns :
                /\ extractNumbers(fs, p).isValid
                /\ \A q \in numberPatterns : q < p => ~extractNumbers(fs, q).isValid
        numberOf(file, p) == matchNumber(p, withoutExtension(file.name))
    IN
    /\ \A input \in arrangements(fileHandlerFiles) :
          LET an == analyzeFileNames(input)
              p  == decidingPattern(input)
          IN  /\ an.hasValidOrder =>
                    /\ \A i \in 1..Len(an.numberedFiles) :
                          /\ isIn(an.numberedFiles[i], input)
                          /\ numberOf(an.numberedFiles[i], p) # Undefined
                    /\ \A i \in 2..Len(an.numberedFiles) :
                          numberOf(an.numberedFiles[i - 1], p)
                             <= numberOf(an.numberedFiles[i], p)
              /\ {input[i].id : i \in 1..Len(input)} = {3, 4, 5} =>
                    an.hasValidOrder /\ idsOf(an.numberedFiles) = <<3, 4, 5>>
    /\ orderModal = "shown" =>
          fileHandlerFiles = sortByName(fileHandlerFiles)

\* Witness: a selection whose numeric order differs from its name order was
\* detected and applied.
C15_Witness ==
    /\ orderStatus = "success"
    /\ analysis.hasValidOrder
    /\ ~analysis.hasCover
    /\ Len(fileHandlerFiles) >= 2
    /\ fileHandlerFiles = analysis.numberedFiles
    /\ fileHandlerFiles # sortByName(fileHandlerFiles)

\* ---------------------------------------------------------------- C16
\* In the three formulas below extractedAt / valuesAt are the positions and
\* the integers a pattern extracts from a list, and enoughNumbers,
\* gapsAtMostTwo, rangeOf the rule on them.
\* C16 (as stated): the pattern used is the first one for which at least
\* 70 % of the names yield an integer; the order is valid iff for that
\* pattern the integers have gaps <= 2 or a range of at most twice the item
\* count; otherwise the result is invalid, "none", confidence 0.
C16_FirstPatternInclusiveRange ==
    fileHandlerFiles # << >> =>
        LET numberOf(file, p) == matchNumber(p, withoutExtension(file.name))
            extractedAt(fs, p) == {i \in 1..Len(fs) : numberOf(fs[i], p) # Undefined}
            valuesAt(fs, p) == {numberOf(fs[i], p) : i \in extractedAt(fs, p)}
            enoughNumbers(fs, p) == 10 * Cardinality(extractedAt(fs, p)) >= 7 * Len(fs)
            gapsAtMostTwo(V) ==
                \A v \in V : (\A u \in V : v <= u) \/ (\E u \in V : u < v /\ v - u <= 2)
            rangeOf(V) == (CHOOSE v \in V : \A u \in V : u <= v)
                          - (CHOOSE v \in V : \A u \in V : v <= u)
            fs    == fileHandlerFiles
            cand  == {p \in numberPatterns : enoughNumbers(fs, p)}
            p     == CHOOSE q \in cand : \A r \in cand : q <= r
            valid == cand # {} /\ (gapsAtMostTwo(valuesAt(fs, p))
                                   \/ rangeOf(valuesAt(fs, p)) <= 2 * Len(fs))
        IN  analyzeNumbering(fs).hasConsistentNumbering = valid

\* C16 (amended): the pattern used is the first one for which at least 70 %
\* of the names yield an integer and those integers have gaps <= 2 or a
\* range strictly below twice the item count; the order is valid iff such a
\* pattern exists, with confidence 1.0 when the gaps are <= 2 and 0.8
\* otherwise; when there is none the result is invalid, "none", confidence 0.
C16_ValidityRule ==
    fileHandlerFiles # << >> =>
        LET numberOf(file, p) == matchNumber(p, withoutExtension(file.name))
            extractedAt(fs, p) == {i \in 1..Len(fs) : numberOf(fs[i], p) # Undefined}
            valuesAt(fs, p) == {numberOf(fs[i], p) : i \in extractedAt(fs, p)}
            enoughNumbers(fs, p) == 10 * Cardinality(extractedAt(fs, p)) >= 7 * Len(fs)
            gapsAtMostTwo(V) ==
                \A v \in V : (\A u \in V : v <= u) \/ (\E u \in V : u < v /\ v - u <= 2)
            rangeOf(V) == (CHOOSE v \in V : \A u \in V : u <= v)
                          - (CHOOSE v \in V : \A u \in V : v <= u)
            fs   == fileHandlerFiles
            ok(p) == /\ enoughNumbers(fs, p)
                     /\ \/ gapsAtMostTwo(valuesAt(fs, p))
                        \/ rangeOf(valuesAt(fs, p)) < 2 * Len(fs)
            good == {p \in numberPatterns : ok(p)}
            p    == CHOOSE q \in good : \A r \in good : q <= r
            res  == analyzeNumbering(fs)
        IN  /\ res.hasConsistentNumbering = (good # {})
            /\ res.confidence \in {0, 80, 100}
            /\ good = {} => /\ res.method = "none"
                            /\ res.confidence = 0
                            /\ res.orderedFiles = << >>
            /\ good # {} => /\ res.method = "numeric"
                            /\ res.confidence =
                                  IF gapsAtMostTwo(valuesAt(fs, p)) THEN 100 ELSE 80
                            /\ Len(res.orderedFiles) = Cardinality(extractedAt(fs, p))

\* Witness: a detection rejected a list whose integers span exactly twice
\* the item count under every pattern that reaches 70 %.
C16_Witness ==
    LET numberOf(file, p) == matchNumber(p, withoutExtension(file.name))
        extractedAt(fs, p) == {i \in 1..Len(fs) : numberOf(fs[i], p) # Undefined}
        valuesAt(fs, p) == {numberOf(fs[i], p) : i \in extractedAt(fs, p)}
        enoughNumbers(fs, p) == 10 * Cardinality(extractedAt(fs, p)) >= 7 * Len(fs)
        gapsAtMostTwo(V) ==
            \A v \in V : (\A u \in V : v <= u) \/ (\E u \in V : u < v /\ v - u <= 2)
        rangeOf(V) == (CHOOSE v \in V : \A u \in V : u <= v)
                      - (CHOOSE v \in V : \A u \in V : v <= u)
    IN
    /\ orderModal = "shown"
    /\ ~analysis.hasValidOrder
    /\ \E p \in numberPatterns : enoughNumbers(fileHandlerFiles, p)
    /\ \A p \in numberPatterns :
          enoughNumbers(fileHandlerFiles, p) =>
              rangeOf(valuesAt(fileHandlerFiles, p)) = 2 * Len(fileHandlerFiles)

\* ---------------------------------------------------------------- C17
\* C17 (as stated): the RGB value the tiled path writes at each interior
\* pixel is within 1 intensity unit of the value the single-pass path
\* computes from the unmodified source.
C17_TiledEqualsFullFrame ==
    passes = <<"optimized">> =>
        LET full == applyHighQualitySharpening(original, strengthOf(strengthLevel)).ctx
            isInterior(i) ==
                LET p == (i - 1) \div 4
                IN  /\ (i - 1) % 4 < 3
                    /\ p % ctx.width >= 1 /\ p % ctx.width < ctx.width - 1
                    /\ p \div ctx.width >= 1 /\ p \div ctx.width < ctx.height - 1
        IN  \A i \in 1..Len(ctx.data) :
                isInterior(i) =>
                    /\ ctx.data[i] - full.data[i] <= 1
                    /\ full.data[i] - ctx.data[i] <= 1

\* ---------------------------------------------------------------- C18
\* C18 (as stated): in every pixel buffer a filter pass hands back to the
\* canvas, the alpha byte of each pixel equals the alpha byte the canvas had
\* at that position before the pass.
C18_AlphaUnchanged ==
    \A k \in 1..Len(buffers) :
        LET b == buffers[k]
        IN  \A p \in 0..(b.width * b.height - 1) :
                b.data[p * 4 + 4] =
                    original.data[((b.y + (p \div b.width)) * original.width
                                   + b.x + (p % b.width)) * 4 + 4]

\* ---------------------------------------------------------------- C20
\* C20 (as stated): once startMonitoring has been called for a batch, the
\* frame-rate loop keeps sampling for as long as the batch runs: while
\* isMonitoring holds a measureFPS callback is scheduled, so fps is rewritten
\* and a low frame rate is seen at the next chunk boundary.
C20_LoopRunsWhileMonitoring == isMonitoring => rafPending

C23_LightweightStrengthTable ==
    passes = <<"lightweight">> =>
        LET w   == original.width
            h   == original.height
            src == original.data
            s   == <<0, 200, 400, 600>>[strengthLevel + 1]
            px(x, y, c) == src[(y * w + x) * 4 + c + 1]
            interior(x, y) == x >= 1 /\ x < w - 1 /\ y >= 1 /\ y < h - 1
        IN  /\ \A x \in 0..(w - 1), y \in 0..(h - 1), c \in 0..3 :
                  ctx.data[(y * w + x) * 4 + c + 1] =
                    IF c < 3 /\ interior(x, y)
                    THEN clampStore((1000 + 4 * s) * px(x, y, c)
                                    - s * (px(x, y - 1, c) + px(x, y + 1, c)
                                           + px(x - 1, y, c) + px(x + 1, y, c)), 1000)
                    ELSE px(x, y, c)
            /\ strengthLevel = 0 => ctx = original

\* C24: for every image and content area with positive sides and each
\* orientation mode, calculateImagePlacement returns a rectangle whose
\* width / height is the image's aspect ratio, with width <= content width
\* and height <= content height, one of the two equal, and centred:
\* x = (content width - width) / 2 >= 0, y = (content height - height) / 2 >= 0.
C24_AspectFitCentred ==
    (returned # << >> /\ returned.method = "calculateImagePlacement") =>
        LET img  == returned.args[1]
            page == returned.args[2]
            r    == returned.value
            \* fractions n / d with d > 0
            eq(a, b) == a[1] * b[2] = b[1] * a[2]
            le(a, b) == a[1] * b[2] <= b[1] * a[2]
            times(a, b) == <<a[1] * b[1], a[2] * b[2]>>
            minus(a, b) == <<a[1] * b[2] - b[1] * a[2], a[2] * b[2]>>
            pw == <<page.width, 1>>
            ph == <<page.height, 1>>
        IN  /\ r.width[2] > 0 /\ r.height[2] > 0 /\ r.x[2] > 0 /\ r.y[2] > 0
            /\ r.width[1] > 0 /\ r.height[1] > 0
            /\ eq(times(r.width, <<img.height, 1>>), times(r.height, <<img.width, 1>>))
            /\ le(r.width, pw)
            /\ le(r.height, ph)
            /\ eq(r.width, pw) \/ eq(r.height, ph)
            /\ eq(times(r.x, <<2, 1>>), minus(pw, r.width))
            /\ eq(times(r.y, <<2, 1>>), minus(ph, r.height))
            /\ le(<<0, 1>>, r.x)
            /\ le(<<0, 1>>, r.y)

\* a tall image was placed on a wide content area in landscape mode: the
\* height is the limiting side and the image is centred horizontally
C24_Witness ==
    /\ returned # << >>
    /\ returned.method = "calculateImagePlacement"
    /\ returned.args = <<[width |-> 2, height |-> 5], [width |-> 7, height |-> 3], "landscape">>
    /\ returned.value.height = <<3, 1>>
    /\ returned.value.x[1] > 0
    /\ returned.value.y[1] = 0

\* C25: re-ordering never changes membership of the working set: applying a
\* detected order (also when some non-cover files carry no number), the
\* alphabetical fallback, sortByName, sortByDate, reverseOrder and a
\* drag-and-drop move leave a permutation of the list before the operation,
\* which for a file selection is the list of the files read; only removeFile
\* (one file less), clearFiles (empty list) and a new file selection change
\* which files are in it.
C25_MembershipKept ==
    [][LET before == fileHandlerFiles
           after  == fileHandlerFiles'
           ids(fs) == {fs[i].id : i \in 1..Len(fs)}
           once(fs) == \A i, j \in 1..Len(fs) : fs[i].id = fs[j].id => i = j
       IN  \/ /\ fileData' = fileData
              /\ ids(after) = ids(before) /\ Len(after) = Len(before) /\ once(after)
           \/ /\ fileData' = fileData
              /\ Len(after) = Len(before) - 1
              /\ ids(after) \subseteq ids(before) /\ once(after)
           \/ after = << >> /\ fileData' = {}
           \/ ids(after) = fileData' /\ once(after)]_vars

\* C26: whenever a batch enhancement (enhanceImagesBatch or
\* processBatchMobile) returns normally, the returned list has one entry per
\* input item in input order (entry i derives from input i, whatever order the
\* items of a chunk settled in), the progress callback was invoked once per
\* item with that item's index, and every item's enhancement was started
\* once: an item that has been started is never started again.
C26_OneEntryPerItemInOrder ==
    /\ [](/\ \A i \in 1..Len(progress) : progress[i] = i
          /\ \A k \in 1..Len(itemState) :
                itemState[k] # "pending" => k <= Len(progress)
          /\ (pc = "done" /\ level > 0 /\ rejectReason = "none") =>
                /\ Len(delivered) = Len(files)
                /\ Len(progress) = Len(files)
                /\ \A i \in 1..Len(files) :
                      /\ itemState[i] \in {"ok", "failed"}
                      /\ delivered[i].id = files[i].id
                      /\ delivered[i].imageData.src = files[i].imageData.src
                      /\ delivered[i].enhanced = (itemState[i] = "ok"))
    /\ [][\A k \in 1..Len(itemState) :
            (k <= Len(itemState') /\ pc # "done") =>
                /\ itemState[k] # "pending" => itemState'[k] # "pending"
                /\ itemState[k] \in {"ok", "failed"} => itemState'[k] = itemState[k]]_vars

\* a desktop batch of more than one chunk returned normally; in its first
\* chunk item 1 failed and item 2 was enhanced
C26_Witness ==
    /\ pc = "done" /\ level > 0 /\ rejectReason = "none"
    /\ ~enhIsMobile
    /\ Len(files) > batchSize
    /\ batchSize >= 2
    /\ itemState[1] = "failed"
    /\ itemState[2] = "ok"
    /\ delivered[2].enhanced

\* C27: a file selection replaces the working set: once the
\* handleFileSelection calls made have completed, also when the later one was
\* made while the earlier one was still reading its files, the working list
\* holds files of the later selection only, each of them once.
C27_LaterSelectionOnly ==
    (runs # << >> /\ \A r \in 1..Len(runs) : runs[r].i > Len(runs[r].files)) =>
        /\ \A k \in 1..Len(fileHandlerFiles) :
              \E j \in 1..Len(runs[Len(runs)].files) :
                  fileHandlerFiles[k].id = 10 * Len(runs) + runs[Len(runs)].files[j].id
        /\ \A k, j \in 1..Len(fileHandlerFiles) :
              fileHandlerFiles[k].name = fileHandlerFiles[j].name => k = j

\* C28: isProcessing is true for the whole time a batch enhancement is in
\* flight and false once neither a batch nor a preview is running, whatever
\* the interleaving with showQualityCompare; no preview is started while a
\* batch runs.
C28_FlagCoversBatch ==
    /\ [](pc \notin {"idle", "done"} => isProcessing)
    /\ [](pc \in {"idle", "done"} /\ previews = 0 => ~isProcessing)
    /\ [][previews' > previews => pc \in {"idle", "done"}]_vars

\* C29: live overrides only tighten the pixel cap: after any sequence of
\* network, battery and resize events optimizationSettings.maxImageSize is at
\* most the base maxImageSize of the device's current capability tier.
C29_CapWithinTierBase ==
    optimizationSettings.maxImageSize <= getOptimizationSettings(deviceCapability).maxImageSize

====
